---------------------------- MODULE Spec2Model ----------------------------
(***************************************************************************)
(* Model of the ylf-chat server: the in-memory data store (db module,      *)
(* src/unnamed/part_000) and the socket.io presence / chat coordinator     *)
(* (server module, src/public/theme.js lines 46-1296).                     *)
(*                                                                         *)
(* Node runs every handler to completion on one thread, so each handler    *)
(* (a socket event, a timer callback, a store call) is one atomic action.  *)
(***************************************************************************)
EXTENDS Integers, Sequences, FiniteSets, TLC

(***************************************************************************)
(* Bounds of the model.                                                    *)
(***************************************************************************)
MaxUsers == 2
MaxSockets == 2
MaxMessages == 2
MaxLimit == 2
MaxTextLen == 4

(* Program constants.                                                      *)
HISTORY_PAGE_SIZE == 40
MAX_MESSAGE_LENGTH == 5000

(* JavaScript null / undefined, kept apart from every id (ids are >= 0).   *)
NULL == 0 - 1

UserIds == 1..MaxUsers
SocketIds == 1..MaxSockets

DisplayNames == {"Al", "Bo"}
Modes == {"presence", "chat"}

JOINED == "joined the chat"
LEFT == "left the chat"

VARIABLES
    store,            \* db: the in-memory store document
    ret,              \* the value the last store call returned
    connectedUsers,   \* Map socket.id -> user id
    userSockets,      \* Map user id -> Set of socket.id, in insertion order
    disconnectTimers, \* Map user id -> handle of the pending departure timer
    timers,           \* the runtime's pending setTimeout callbacks
    emitted,          \* the events the last handler emitted, in order
    returnedIds,      \* history: the ids saveMessage has returned, in call order
    saveTimer,        \* db: is the write-behind timer pending (saveTimer non-null)
    saveTimers,       \* the flush callbacks pending in the runtime's timer queue
    writes,           \* the fs.promises.writeFile calls in flight, in start order
    disk,             \* the content of store.json: <<>> when there is no file
    requests,         \* the HTTP requests waiting at an await
    downloader        \* the page's HighSpeedDownloader and its multiFetch call

serverVars == <<store, ret, returnedIds, saveTimer, saveTimers, writes, disk,
                requests, connectedUsers, userSockets, disconnectTimers, timers,
                emitted>>
vars == <<serverVars, downloader>>
ioVars == <<writes, disk, requests>>
persistVars == <<saveTimer, saveTimers, writes, disk, requests>>
storeVars == <<store, ret, returnedIds, saveTimer, saveTimers, writes, disk, requests>>
presenceVars == <<connectedUsers, userSockets, disconnectTimers, timers, emitted>>

(***************************************************************************)
(* Helpers on sequences.                                                   *)
(***************************************************************************)
Max(a, b) == IF a >= b THEN a ELSE b

(* Array.prototype.find: the first element satisfying Test, as a sequence  *)
(* of length 0 (undefined) or 1.                                           *)
Find(s, Test(_)) ==
    LET hits == SelectSeq(s, Test)
    IN  IF hits = <<>> THEN <<>> ELSE <<Head(hits)>>

(***************************************************************************)
(* The store (src/unnamed/part_000).                                       *)
(***************************************************************************)
defaultStore ==
    [users |-> <<>>, messages |-> <<>>, files |-> <<>>,
     nextUserId |-> 1, nextMessageId |-> 1, nextFileId |-> 1]

(* a || b for a value that is falsy when null or 0 *)
OrNull(v) == IF v = NULL \/ v = 0 THEN NULL ELSE v

getUserById(s, id) == Find(s.users, LAMBDA u : u.id = id)

(* cloneUser / { ...message }: a returned object, with the stored object it *)
(* is (ref = its position in store.messages) or 0 for a fresh copy.        *)
Fresh(val) == [ref |-> 0, val |-> val]

createUserOp(s, data) ==
    LET user == [id |-> s.nextUserId,
                 email |-> data.email,
                 display_name |-> data.display_name,
                 is_verified |-> IF data.is_verified # 0 THEN 1 ELSE 0,
                 verification_token |->              \* <<>> is null
                     IF "verification_token" \in DOMAIN data
                     THEN data.verification_token ELSE <<>>,
                 verification_expires |->
                     IF "verification_expires" \in DOMAIN data
                     THEN OrNull(data.verification_expires) ELSE NULL,
                 custom_stickers |-> IF "custom_stickers" \in DOMAIN data
                                     THEN data.custom_stickers ELSE <<>>]
    IN  [store |-> [s EXCEPT !.nextUserId = @ + 1,
                             !.users = Append(@, user)],
         scheduleSave |-> TRUE,
         ret |-> [op |-> "createUser", res |-> "user", objs |-> <<Fresh(user)>>]]

(* store.messages.find(m => m.id === messageId): its position, 0 if none *)
FindMessage(s, messageId) ==
    IF \E i \in DOMAIN s.messages : s.messages[i].id = messageId
    THEN CHOOSE i \in DOMAIN s.messages :
            /\ s.messages[i].id = messageId
            /\ \A j \in 1..(i - 1) : s.messages[j].id # messageId
    ELSE 0

saveMessageOp_sameId(s, userId, content, createdAt, replyToId) ==
    LET message == [id |-> s.nextMessageId, user_id |-> userId, content |-> content,
                    created_at |-> createdAt, reply_to_id |-> OrNull(replyToId),
                    is_deleted |-> 0]
    IN  [store |-> [s EXCEPT !.messages = Append(@, message)],
         scheduleSave |-> TRUE,
         ret |-> [op |-> "saveMessage", res |-> "message", objs |-> <<Fresh(message)>>]]

saveMessageOp_returnsStored(s, userId, content, createdAt, replyToId) ==
    LET message == [id |-> s.nextMessageId, user_id |-> userId, content |-> content,
                    created_at |-> createdAt, reply_to_id |-> OrNull(replyToId),
                    is_deleted |-> 0]
    IN  [store |-> [s EXCEPT !.nextMessageId = @ + 1,
                             !.messages = Append(@, message)],
         scheduleSave |-> TRUE,
         ret |-> [op |-> "saveMessage", res |-> "message",
                  objs |-> <<[ref |-> Len(s.messages) + 1, val |-> message]>>]]

(* saveMessage: lines 286-298 *)
saveMessageOp(s, userId, content, createdAt, replyToId) ==
    LET message == [id |-> s.nextMessageId, user_id |-> userId, content |-> content,
                    created_at |-> createdAt, reply_to_id |-> OrNull(replyToId),
                    is_deleted |-> 0]
    IN  [store |-> [s EXCEPT !.nextMessageId = @ + 1,
                             !.messages = Append(@, message)],
         scheduleSave |-> TRUE,
         ret |-> [op |-> "saveMessage", res |-> "message", objs |-> <<Fresh(message)>>]]

DeleteResult(res) == [op |-> "deleteMessage", res |-> res, objs |-> <<>>]

deleteMessageOp_noAlreadyCheck(s, messageId, requestingUserId) ==
    LET i == FindMessage(s, messageId)
    IN  IF i = 0
        THEN [store |-> s, scheduleSave |-> FALSE,
              ret |-> DeleteResult([success |-> FALSE, reason |-> "not_found"])]
        ELSE IF s.messages[i].user_id # requestingUserId
        THEN [store |-> s, scheduleSave |-> FALSE,
              ret |-> DeleteResult([success |-> FALSE, reason |-> "permission_denied"])]
        ELSE [store |-> [s EXCEPT !.messages[i].is_deleted = 1],
              scheduleSave |-> TRUE,
              ret |-> DeleteResult([success |-> TRUE])]

deleteMessageOp_noOwnerCheck(s, messageId, requestingUserId) ==
    LET i == FindMessage(s, messageId)
    IN  IF i = 0
        THEN [store |-> s, scheduleSave |-> FALSE,
              ret |-> DeleteResult([success |-> FALSE, reason |-> "not_found"])]
        ELSE IF s.messages[i].is_deleted # 0
        THEN [store |-> s, scheduleSave |-> FALSE,
              ret |-> DeleteResult([success |-> TRUE, already |-> TRUE])]
        ELSE IF s.messages[i].user_id # requestingUserId
        THEN [store |-> s, scheduleSave |-> FALSE,
              ret |-> DeleteResult([success |-> FALSE, reason |-> "permission_denied"])]
        ELSE [store |-> [s EXCEPT !.messages[i].is_deleted = 1],
              scheduleSave |-> TRUE,
              ret |-> DeleteResult([success |-> TRUE])]

(* deleteMessage: lines 300-314 *)
deleteMessageOp(s, messageId, requestingUserId) ==
    LET i == FindMessage(s, messageId)
    IN  IF i = 0
        THEN [store |-> s, scheduleSave |-> FALSE,
              ret |-> DeleteResult([success |-> FALSE, reason |-> "not_found"])]
        ELSE IF s.messages[i].user_id # requestingUserId
        THEN [store |-> s, scheduleSave |-> FALSE,
              ret |-> DeleteResult([success |-> FALSE, reason |-> "permission_denied"])]
        ELSE IF s.messages[i].is_deleted # 0
        THEN [store |-> s, scheduleSave |-> FALSE,
              ret |-> DeleteResult([success |-> TRUE, already |-> TRUE])]
        ELSE [store |-> [s EXCEPT !.messages[i].is_deleted = 1],
              scheduleSave |-> TRUE,
              ret |-> DeleteResult([success |-> TRUE])]

UNKNOWN_USER == "unknown user"
SYSTEM_MESSAGE == "system message"

(* getMessageById: lines 316-327; <<>> stands for null *)
getMessageById(s, id) ==
    LET i == FindMessage(s, id)
    IN  IF i = 0 THEN <<>>
        ELSE LET message == s.messages[i]
                 user == getUserById(s, message.user_id)
             IN  << Fresh([id |-> message.id, user_id |-> message.user_id,
                           content |-> message.content,
                           created_at |-> message.created_at,
                           reply_to_id |-> message.reply_to_id,
                           is_deleted |-> message.is_deleted,
                           display_name |-> IF user # <<>> THEN user[1].display_name
                                            ELSE UNKNOWN_USER,
                           email |-> IF user # <<>> THEN user[1].email ELSE ""]) >>

(* Array.prototype.slice(-take) *)
SliceLast(seq, take) == SubSeq(seq, Max(1, Len(seq) - take + 1), Len(seq))

(* a row builder that keeps the messages of unknown authors *)
PageRow_keepsOrphans(s, msg) ==
    LET user == getUserById(s, msg.user_id)
    IN  << Fresh([id |-> msg.id, user_id |-> msg.user_id,
                  content |-> msg.content, created_at |-> msg.created_at,
                  display_name |-> IF user # <<>> THEN user[1].display_name
                                   ELSE SYSTEM_MESSAGE,
                  email |-> IF user # <<>> THEN user[1].email ELSE "",
                  is_deleted |-> msg.is_deleted,
                  reply_to_id |-> msg.reply_to_id]) >>

(* the row getMessagesPage builds for one message: lines 348-363; <<>> is null *)
PageRow(s, msg) ==
    LET user == getUserById(s, msg.user_id)
    IN  IF user = <<>> /\ msg.user_id # NULL THEN <<>>
        ELSE << Fresh([id |-> msg.id, user_id |-> msg.user_id,
                       content |-> msg.content, created_at |-> msg.created_at,
                       display_name |-> IF user # <<>> THEN user[1].display_name
                                        ELSE SYSTEM_MESSAGE,
                       email |-> IF user # <<>> THEN user[1].email ELSE "",
                       is_deleted |-> msg.is_deleted,
                       reply_to_id |-> msg.reply_to_id]) >>

RECURSIVE PageRows(_, _)
PageRows(s, slice) ==
    IF slice = <<>> THEN <<>>
    ELSE PageRow(s, Head(slice)) \o PageRows(s, Tail(slice))

getMessagesPage_inclusive(s, limit, beforeId) ==
    LET take == Max(0, IF limit = NULL THEN 0 ELSE limit)
        filtered == IF beforeId # NULL
                    THEN SelectSeq(s.messages, LAMBDA msg : msg.id <= beforeId)
                    ELSE s.messages
    IN  IF take = 0 THEN <<>> ELSE PageRows(s, SliceLast(filtered, take))

(* getMessagesPage: lines 339-365 *)
getMessagesPage(s, limit, beforeId) ==
    LET take == Max(0, IF limit = NULL THEN 0 ELSE limit)   \* Number(limit) || 0
        filtered == IF beforeId # NULL                      \* Number.isInteger(beforeId)
                    THEN SelectSeq(s.messages, LAMBDA msg : msg.id < beforeId)
                    ELSE s.messages
    IN  IF take = 0 THEN <<>> ELSE PageRows(s, SliceLast(filtered, take))

(***************************************************************************)
(* Presence (src/public/theme.js).  userSockets is a JS Map, which keeps   *)
(* insertion order: a sequence of [id, sockets] entries.                   *)
(***************************************************************************)
MapKeys(m) == {m[i].id : i \in DOMAIN m}

(* a size that counts the connections of all entries *)
RECURSIVE MapSize_countsSockets(_)
MapSize_countsSockets(m) ==
    IF m = <<>> THEN 0
    ELSE Cardinality(Head(m).sockets) + MapSize_countsSockets(Tail(m))

(* Map.prototype.size *)
MapSize(m) == Len(m)

MapHas(m, k) == k \in MapKeys(m)

MapGet(m, k) == (CHOOSE i \in DOMAIN m : m[i].id = k)

MapSockets(m, k) == m[MapGet(m, k)].sockets

MapDelete(m, k) == SelectSeq(m, LAMBDA e : e.id # k)

(* String.prototype.toLowerCase over the display names of the model *)
toLowerCase(name) == IF name = "Al" THEN "al" ELSE IF name = "Bo" THEN "bo" ELSE name

(* the collation rank localeCompare(…, 'zh-Hans') orders lower-case names by *)
CollationRank(lower) == IF lower = "al" THEN 1 ELSE IF lower = "bo" THEN 2 ELSE 0

localeCompare(a, b) ==
    IF CollationRank(a) < CollationRank(b) THEN 0 - 1
    ELSE IF CollationRank(a) > CollationRank(b) THEN 1 ELSE 0

mapUserToClient(user) ==
    [id |-> user.id, displayName |-> user.display_name,
     isVerified |-> (user.is_verified # 0)]

(* Array.prototype.sort is stable: insert each element behind every element *)
(* that does not compare greater.                                          *)
RECURSIVE SortRoster(_)
SortRoster(s) ==
    IF s = <<>> THEN <<>>
    ELSE LET rest == SortRoster(SubSeq(s, 1, Len(s) - 1))
             x == s[Len(s)]
             keep == SelectSeq(rest, LAMBDA y :
                        localeCompare(toLowerCase(y.displayName),
                                      toLowerCase(x.displayName)) <= 0)
             after == SelectSeq(rest, LAMBDA y :
                        localeCompare(toLowerCase(y.displayName),
                                      toLowerCase(x.displayName)) > 0)
         IN  keep \o <<x>> \o after

RECURSIVE RosterRows(_, _)
RosterRows(s, m) ==
    IF m = <<>> THEN <<>>
    ELSE LET u == getUserById(s, Head(m).id)
         IN  (IF u = <<>> THEN <<>> ELSE <<mapUserToClient(u[1])>>)
             \o RosterRows(s, Tail(m))

buildRoster(s, m) == SortRoster(RosterRows(s, m))

RETRACTED == "retracted a message"

(* formatMessagePayload: lines 966-1029, without the rendered html and the *)
(* avatar; the text of a retracted message is its author's name and the    *)
(* fixed phrase RETRACTED.                                                 *)
formatMessagePayload(row) ==
    IF row.user_id = NULL
    THEN [id |-> row.id, userId |-> NULL, author |-> SYSTEM_MESSAGE,
          text |-> <<row.content>>, time |-> row.created_at,
          isDeleted |-> FALSE, replyToId |-> NULL, mentions |-> <<>>]
    ELSE IF row.is_deleted # 0
    THEN [id |-> row.id, userId |-> row.user_id, author |-> row.display_name,
          text |-> <<row.display_name, RETRACTED>>, time |-> row.created_at,
          isDeleted |-> TRUE, replyToId |-> NULL, mentions |-> <<>>]
    ELSE [id |-> row.id, userId |-> row.user_id, author |-> row.display_name,
          text |-> <<row.content>>, time |-> row.created_at,
          isDeleted |-> FALSE, replyToId |-> OrNull(row.reply_to_id),
          mentions |-> <<>>]

(***************************************************************************)
(* Message text.  A string is a sequence of pieces: the space " ", the     *)
(* sign "@", and words, which are runs of characters that are neither      *)
(* white space nor "@".  FILLER is a word of 4999 letters; every other     *)
(* word of the model has two letters.  Two pieces next to each other are   *)
(* one longer word; no display name of the model is such a longer word.    *)
(***************************************************************************)
FILLER == "x..x"

PieceLength(p) == IF p = FILLER THEN 4999 ELSE IF p \in {" ", "@"} THEN 1 ELSE 2

(* String.prototype.length *)
RECURSIVE StringLength(_)
StringLength(text) ==
    IF text = <<>> THEN 0 ELSE PieceLength(Head(text)) + StringLength(Tail(text))

(* String.prototype.trim *)
RECURSIVE trim(_)
trim(text) ==
    IF text = <<>> THEN <<>>
    ELSE IF Head(text) = " " THEN trim(Tail(text))
    ELSE IF text[Len(text)] = " " THEN trim(SubSeq(text, 1, Len(text) - 1))
    ELSE text

(* [^\s@]+ from position i: the last position of the longest run of words  *)
(* that starts at i, i - 1 when there is none                              *)
RECURSIVE RunEnd(_, _)
RunEnd(text, i) ==
    IF i > Len(text) \/ text[i] \in {" ", "@"} THEN i - 1 ELSE RunEnd(text, i + 1)

(* regex.exec in a loop with /@([^\s@]+)(?=\s|$)/g, from position i: the   *)
(* captured names match[1], in order.  A run that stops at an "@" cannot   *)
(* be shortened into a match, and the scan goes on behind the "@" it tried.*)
RECURSIVE RegexMatches(_, _)
RegexMatches(text, i) ==
    IF i > Len(text) THEN <<>>
    ELSE IF text[i] # "@" THEN RegexMatches(text, i + 1)
    ELSE LET j == RunEnd(text, i + 1)
         IN  IF j >= i + 1 /\ (j = Len(text) \/ text[j + 1] = " ")
             THEN <<SubSeq(text, i + 1, j)>> \o RegexMatches(text, j + 1)
             ELSE RegexMatches(text, i + 1)

(* getUserByDisplayName: part_000 lines 329-337; name is a run of words,   *)
(* display names are single trimmed words; <<>> stands for null            *)
getUserByDisplayName(s, name) ==
    IF Len(name) # 1 THEN <<>>
    ELSE Find(s.users, LAMBDA u : toLowerCase(u.display_name) = toLowerCase(name[1]))

NoMentions == [ids |-> <<>>, map |-> <<>>]

(* the body of extractMentions' loop, names being the matches still to be  *)
(* handled; map is a Map, kept as its entries in insertion order           *)
RECURSIVE MentionLoop(_, _, _, _)
MentionLoop(s, names, senderId, found) ==
    IF names = <<>> THEN found
    ELSE LET name == Head(names)
             user == getUserByDisplayName(s, name)
             has == \E k \in DOMAIN found.map : found.map[k].name = name
         IN  MentionLoop(s, Tail(names), senderId,
                IF user # <<>> /\ user[1].id # senderId /\ ~has
                THEN [ids |-> Append(found.ids, user[1].id),
                      map |-> Append(found.map, [name |-> name, id |-> user[1].id])]
                ELSE found)

extractMentions_senderIncluded(s, text, senderId) ==
    MentionLoop(s, RegexMatches(text, 1), NULL, NoMentions)

(* extractMentions: lines 1167-1183 *)
extractMentions(s, text, senderId) ==
    MentionLoop(s, RegexMatches(text, 1), senderId, NoMentions)

(***************************************************************************)
(* Profiles, custom stickers and file records (src/unnamed/part_000).  A   *)
(* sticker keeps its id and its description, the description standing for  *)
(* the fields the caller supplies; a file record keeps id, user_id, code.  *)
(* A code is a sequence of one-character strings.                          *)
(***************************************************************************)
MAX_CUSTOM_STICKERS == 60

(* store.users.findIndex(u => u.id === id) + 1: 0 when there is none *)
UserPos(s, id) ==
    IF \E k \in DOMAIN s.users : s.users[k].id = id
    THEN CHOOSE k \in DOMAIN s.users :
            /\ s.users[k].id = id
            /\ \A j \in 1..(k - 1) : s.users[j].id # id
    ELSE 0

getUserByEmail(s, email) == Find(s.users, LAMBDA u : u.email = email)

(* updateUserProfile reporting a change it has not made yet *)
updateUserProfileOp_unapplied(s, data) ==
    [store |-> s, scheduleSave |-> UserPos(s, data.id) # 0,
     ret |-> [op |-> "updateUserProfile",
              res |-> [changes |-> IF UserPos(s, data.id) = 0 THEN 0 ELSE 1],
              objs |-> <<>>]]

(* updateUserProfile: lines 216-225 *)
updateUserProfileOp(s, data) ==
    LET k == UserPos(s, data.id)
    IN  IF k = 0
        THEN [store |-> s, scheduleSave |-> FALSE,
              ret |-> [op |-> "updateUserProfile", res |-> [changes |-> 0],
                       objs |-> <<>>]]
        ELSE [store |-> [s EXCEPT !.users[k].display_name = data.displayName],
              scheduleSave |-> TRUE,
              ret |-> [op |-> "updateUserProfile", res |-> [changes |-> 1],
                       objs |-> <<>>]]

(* getUserStickers: lines 371-375 *)
getUserStickers(s, userId) ==
    LET k == UserPos(s, userId)
    IN  IF k = 0 THEN <<>> ELSE s.users[k].custom_stickers

(* a failure that arms the flush timer all the same *)
StickerFailure_schedulesSave(s, op, reason) ==
    [store |-> s, scheduleSave |-> TRUE,
     ret |-> [op |-> op, res |-> [success |-> FALSE, reason |-> reason],
              objs |-> <<>>]]

(* the early returns of lines 379 and 406-411 *)
StickerFailure(s, op, reason) ==
    [store |-> s, scheduleSave |-> FALSE,
     ret |-> [op |-> op, res |-> [success |-> FALSE, reason |-> reason],
              objs |-> <<>>]]

(* addUserSticker without the limit test of line 383 *)
addUserStickerOp_noLimit(s, data, hex) ==
    LET k == UserPos(s, data.id)
        sticker == [id |-> hex, description |-> data.description]
    IN  IF k = 0 THEN StickerFailure(s, "addUserSticker", "not_found")
        ELSE [store |-> [s EXCEPT !.users[k].custom_stickers = Append(@, sticker)],
              scheduleSave |-> TRUE,
              ret |-> [op |-> "addUserSticker",
                       res |-> [success |-> TRUE, sticker |-> sticker,
                                stickers |-> Append(s.users[k].custom_stickers,
                                                    sticker)],
                       objs |-> <<>>]]

(* addUserSticker: lines 377-401; hex is what crypto.randomBytes(8) yields *)
addUserStickerOp(s, data, hex) ==
    LET k == UserPos(s, data.id)
        sticker == [id |-> hex, description |-> data.description]
    IN  IF k = 0 THEN StickerFailure(s, "addUserSticker", "not_found")
        ELSE IF Len(s.users[k].custom_stickers) >= MAX_CUSTOM_STICKERS
        THEN StickerFailure(s, "addUserSticker", "limit")
        ELSE [store |-> [s EXCEPT !.users[k].custom_stickers = Append(@, sticker)],
              scheduleSave |-> TRUE,
              ret |-> [op |-> "addUserSticker",
                       res |-> [success |-> TRUE, sticker |-> sticker,
                                stickers |-> Append(s.users[k].custom_stickers,
                                                    sticker)],
                       objs |-> <<>>]]

(* Array.prototype.splice(index, 1) *)
Splice(seq, index) ==
    SubSeq(seq, 1, index - 1) \o SubSeq(seq, index + 1, Len(seq))

(* removeUserSticker: lines 403-416 *)
removeUserStickerOp(s, data) ==
    LET k == UserPos(s, data.id)
    IN  IF k = 0 THEN StickerFailure(s, "removeUserSticker", "not_found")
        ELSE LET list == s.users[k].custom_stickers
                 hits == {i \in DOMAIN list : list[i].id = data.stickerId}
             IN  IF hits = {}
                 THEN StickerFailure(s, "removeUserSticker", "not_found")
                 ELSE LET index == CHOOSE i \in hits : \A j \in hits : i <= j
                      IN  [store |-> [s EXCEPT !.users[k].custom_stickers =
                                                   Splice(@, index)],
                           scheduleSave |-> TRUE,
                           ret |-> [op |-> "removeUserSticker",
                                    res |-> [success |-> TRUE], objs |-> <<>>]]

(* String.prototype.toUpperCase over the characters a code can hold *)
UpperChar(c) ==
    CASE c = "a" -> "A" [] c = "b" -> "B" [] c = "c" -> "C"
      [] c = "d" -> "D" [] c = "e" -> "E" [] c = "f" -> "F" [] OTHER -> c

toUpperCase(code) == [i \in DOMAIN code |-> UpperChar(code[i])]

(* String(code || '').trim().toUpperCase(), <<>> being null as well as '' *)
NormalizeCode(code) == toUpperCase(trim(code))

(* saveFileRecord: lines 418-432 *)
saveFileRecordOp(s, data) ==
    LET record == [id |-> s.nextFileId, user_id |-> data.userId,
                   code |-> NormalizeCode(data.code)]
    IN  [store |-> [s EXCEPT !.nextFileId = @ + 1,
                             !.files = Append(@, record)],
         scheduleSave |-> TRUE,
         ret |-> [op |-> "saveFileRecord", res |-> "file",
                  objs |-> <<Fresh(record)>>]]

(* getFileByCode: lines 434-438 *)
getFileByCode(s, code) ==
    IF NormalizeCode(code) = <<>> THEN <<>>
    ELSE Find(s.files, LAMBDA file : file.code = NormalizeCode(code))

(* the handle setTimeout returns: one that no pending timer holds *)
NewTimer(ts) == CHOOSE h \in 1..(Cardinality(ts) + 1) : \A t \in ts : t.id # h

clearTimeout_forgotten(ts, h) == ts

(* clearTimeout(handle) *)
clearTimeout(ts, h) == {t \in ts : t.id # h}

(***************************************************************************)
(* Initial state: a fresh installation, nobody connected.                  *)
(***************************************************************************)
(* no download was started *)
NoDownload ==
    [phase |-> "idle", mode |-> "none", size |-> 0, chunkSize |-> 0,
     concurrency |-> 0, ranges |-> <<>>, queue |-> <<>>, results |-> <<>>,
     completed |-> 0, workers |-> <<>>, taken |-> <<>>, arrived |-> <<>>,
     blob |-> <<>>, triggered |-> FALSE]

Init ==
    /\ store = defaultStore
    /\ ret = [op |-> "none", res |-> "none", objs |-> <<>>]
    /\ returnedIds = <<>>
    /\ saveTimer = FALSE
    /\ saveTimers = 0
    /\ writes = <<>>
    /\ disk = <<>>
    /\ requests = {}
    /\ connectedUsers = <<>>
    /\ userSockets = <<>>
    /\ disconnectTimers = <<>>
    /\ timers = {}
    /\ emitted = <<>>
    /\ downloader = NoDownload

(* line 187: does this registration take the user from offline to online? *)
firstConnection_ignoresTimer(size, hadPendingDeparture) == size = 0

firstConnection_ignoresSize(size, hadPendingDeparture) == ~hadPendingDeparture

firstConnection(size, hadPendingDeparture) == size = 0 /\ ~hadPendingDeparture

ConnectionRegister_snapshotFirst(sid, user, mode) ==
    LET hadPendingDeparture == user.id \in DOMAIN disconnectTimers
        timers1 == IF hadPendingDeparture
                   THEN clearTimeout(timers, disconnectTimers[user.id])
                   ELSE timers
        dt1 == [u \in DOMAIN disconnectTimers \ {user.id} |-> disconnectTimers[u]]
        us1 == IF MapHas(userSockets, user.id) THEN userSockets
               ELSE Append(userSockets, [id |-> user.id, sockets |-> {}])
        i == MapGet(us1, user.id)
        first == firstConnection(Cardinality(us1[i].sockets), hadPendingDeparture)
        us2 == [us1 EXCEPT ![i].sockets = @ \cup {sid}]
        userPayload == mapUserToClient(user)
        initialRows == getMessagesPage(store, HISTORY_PAGE_SIZE, NULL)
        historyPayload == [k \in DOMAIN initialRows |->
                              formatMessagePayload(initialRows[k].val)]
        initEvent ==
            IF mode = "presence"
            THEN [ev |-> "presence-init", scope |-> "self", sock |-> sid,
                  self |-> userPayload, roster |-> buildRoster(store, userSockets),
                  online |-> MapSize(userSockets)]
            ELSE [ev |-> "chat-init", scope |-> "self", sock |-> sid,
                  self |-> userPayload, history |-> historyPayload,
                  historyDone |-> (Len(historyPayload) < HISTORY_PAGE_SIZE),
                  online |-> MapSize(userSockets),
                  roster |-> buildRoster(store, userSockets)]
        joinEvents ==
            IF first
            THEN << [ev |-> "system-message", scope |-> "others", sock |-> sid,
                     text |-> <<user.display_name, JOINED>>, about |-> user.id],
                    [ev |-> "roster-update", scope |-> "all",
                     roster |-> buildRoster(store, us2)] >>
            ELSE <<>>
    IN  /\ connectedUsers' = (sid :> user.id) @@ connectedUsers
        /\ timers' = timers1
        /\ disconnectTimers' = dt1
        /\ userSockets' = us2
        /\ emitted' = <<initEvent>> \o joinEvents
                      \o << [ev |-> "online-count", scope |-> "all", n |-> MapSize(us2)] >>

(***************************************************************************)
(* io.on('connection'): lines 156-219.                                     *)
(***************************************************************************)
ConnectionRegister(sid, user, mode) ==
    LET hadPendingDeparture == user.id \in DOMAIN disconnectTimers
        timers1 == IF hadPendingDeparture
                   THEN clearTimeout(timers, disconnectTimers[user.id])
                   ELSE timers
        dt1 == [u \in DOMAIN disconnectTimers \ {user.id} |-> disconnectTimers[u]]
        us1 == IF MapHas(userSockets, user.id) THEN userSockets
               ELSE Append(userSockets, [id |-> user.id, sockets |-> {}])
        i == MapGet(us1, user.id)
        first == firstConnection(Cardinality(us1[i].sockets), hadPendingDeparture)
        us2 == [us1 EXCEPT ![i].sockets = @ \cup {sid}]
        userPayload == mapUserToClient(user)
        initialRows == getMessagesPage(store, HISTORY_PAGE_SIZE, NULL)
        historyPayload == [k \in DOMAIN initialRows |->
                              formatMessagePayload(initialRows[k].val)]
        initEvent ==
            IF mode = "presence"
            THEN [ev |-> "presence-init", scope |-> "self", sock |-> sid,
                  self |-> userPayload, roster |-> buildRoster(store, us2),
                  online |-> MapSize(us2)]
            ELSE [ev |-> "chat-init", scope |-> "self", sock |-> sid,
                  self |-> userPayload, history |-> historyPayload,
                  historyDone |-> (Len(historyPayload) < HISTORY_PAGE_SIZE),
                  online |-> MapSize(us2), roster |-> buildRoster(store, us2)]
        joinEvents ==
            IF first
            THEN << [ev |-> "system-message", scope |-> "others", sock |-> sid,
                     text |-> <<user.display_name, JOINED>>, about |-> user.id],
                    [ev |-> "roster-update", scope |-> "all",
                     roster |-> buildRoster(store, us2)] >>
            ELSE <<>>
    IN  /\ connectedUsers' = (sid :> user.id) @@ connectedUsers
        /\ timers' = timers1
        /\ disconnectTimers' = dt1
        /\ userSockets' = us2
        /\ emitted' = <<initEvent>> \o joinEvents
                      \o << [ev |-> "online-count", scope |-> "all", n |-> MapSize(us2)] >>

Connection_registersFirst(sid, sessionUserId, mode) ==
    /\ sid \notin DOMAIN connectedUsers
    /\ LET user == IF sessionUserId = NULL \/ sessionUserId = 0 THEN <<>>
                   ELSE getUserById(store, sessionUserId)
       IN  IF user = <<>>
           THEN /\ emitted' = << [ev |-> "auth-required", scope |-> "self", sock |-> sid] >>
                /\ connectedUsers' = (sid :> sessionUserId) @@ connectedUsers
                /\ UNCHANGED <<userSockets, disconnectTimers, timers>>
           ELSE ConnectionRegister(sid, user[1], mode)
    /\ UNCHANGED <<storeVars, downloader>>

Connection(sid, sessionUserId, mode) ==
    /\ sid \notin DOMAIN connectedUsers
    /\ LET user == IF sessionUserId = NULL \/ sessionUserId = 0 THEN <<>>
                   ELSE getUserById(store, sessionUserId)
       IN  IF user = <<>>
           THEN /\ emitted' = << [ev |-> "auth-required", scope |-> "self", sock |-> sid] >>
                /\ UNCHANGED <<connectedUsers, userSockets, disconnectTimers, timers>>
           ELSE ConnectionRegister(sid, user[1], mode)
    /\ UNCHANGED <<storeVars, downloader>>

(***************************************************************************)
(* scheduleDeparture: lines 1197-1214 (the part that runs at once).        *)
(***************************************************************************)
scheduleDeparture_noTimer(userId) == UNCHANGED <<disconnectTimers, timers>>

scheduleDeparture(userId) ==
    IF userId \in DOMAIN disconnectTimers
    THEN UNCHANGED <<disconnectTimers, timers>>
    ELSE LET h == NewTimer(timers)
         IN  /\ timers' = timers \cup {[id |-> h, userId |-> userId]}
             /\ disconnectTimers' = (userId :> h) @@ disconnectTimers

(***************************************************************************)
(* socket.on('disconnect'): lines 325-335.                                 *)
(***************************************************************************)
(* a disconnect that starts the grace timer whatever connections remain *)
Disconnect_alwaysSchedules(sid) ==
    /\ sid \in DOMAIN connectedUsers
    /\ LET userId == connectedUsers[sid]
       IN  /\ connectedUsers' = [s \in DOMAIN connectedUsers \ {sid} |-> connectedUsers[s]]
           /\ IF MapHas(userSockets, userId)
              THEN LET i == MapGet(userSockets, userId)
                   IN  /\ userSockets' = [userSockets EXCEPT ![i].sockets = @ \ {sid}]
                       /\ scheduleDeparture(userId)
              ELSE UNCHANGED <<userSockets, disconnectTimers, timers>>
    /\ emitted' = <<>>
    /\ UNCHANGED <<storeVars, downloader>>

Disconnect(sid) ==
    /\ sid \in DOMAIN connectedUsers
    /\ LET userId == connectedUsers[sid]
       IN  /\ connectedUsers' = [s \in DOMAIN connectedUsers \ {sid} |-> connectedUsers[s]]
           /\ IF MapHas(userSockets, userId)
              THEN LET i == MapGet(userSockets, userId)
                       us1 == [userSockets EXCEPT ![i].sockets = @ \ {sid}]
                   IN  /\ userSockets' = us1
                       /\ IF us1[i].sockets = {}
                          THEN scheduleDeparture(userId)
                          ELSE UNCHANGED <<disconnectTimers, timers>>
              ELSE UNCHANGED <<userSockets, disconnectTimers, timers>>
    /\ emitted' = <<>>
    /\ UNCHANGED <<storeVars, downloader>>

(***************************************************************************)
(* The departure timer's callback: lines 1199-1212.  Departure is its tail, *)
(* lines 1205-1211: drop the entry, then announce.                         *)
(***************************************************************************)
Departure_rosterBeforeDelete(s, us, userId) ==
    LET us1 == MapDelete(us, userId)
        latest == getUserById(s, userId)
    IN  [userSockets |-> us1,
         emitted |->
            (IF latest # <<>>
             THEN << [ev |-> "system-message", scope |-> "all",
                      text |-> <<latest[1].display_name, LEFT>>, about |-> userId] >>
             ELSE <<>>)
            \o << [ev |-> "roster-update", scope |-> "all",
                   roster |-> buildRoster(s, us)],
                  [ev |-> "online-count", scope |-> "all", n |-> MapSize(us1)] >>]

(* a departure that drops the entry and announces nothing but the count *)
Departure_silent(s, us, userId) ==
    [userSockets |-> MapDelete(us, userId),
     emitted |-> << [ev |-> "online-count", scope |-> "all",
                     n |-> MapSize(MapDelete(us, userId))] >>]

Departure(s, us, userId) ==
    LET us1 == MapDelete(us, userId)
        latest == getUserById(s, userId)
    IN  [userSockets |-> us1,
         emitted |->
            (IF latest # <<>>
             THEN << [ev |-> "system-message", scope |-> "all",
                      text |-> <<latest[1].display_name, LEFT>>, about |-> userId] >>
             ELSE <<>>)
            \o << [ev |-> "roster-update", scope |-> "all",
                   roster |-> buildRoster(s, us1)],
                  [ev |-> "online-count", scope |-> "all", n |-> MapSize(us1)] >>]

DepartureCallback(t) ==
    LET userId == t.userId
        dt1 == [u \in DOMAIN disconnectTimers \ {userId} |-> disconnectTimers[u]]
    IN  /\ timers' = timers \ {t}
        /\ disconnectTimers' = dt1
        /\ IF MapHas(userSockets, userId) /\ MapSockets(userSockets, userId) # {}
           THEN /\ emitted' = <<>>
                /\ UNCHANGED userSockets
           ELSE LET d == Departure(store, userSockets, userId)
                IN  /\ userSockets' = d.userSockets
                    /\ emitted' = d.emitted
        /\ UNCHANGED <<connectedUsers>>

TimerFire ==
    /\ \E t \in timers : DepartureCallback(t)
    /\ UNCHANGED <<storeVars, downloader>>

(***************************************************************************)
(* Calls of the store's interface, each from a handler that emits no       *)
(* socket event.                                                           *)
(***************************************************************************)
(* scheduleSave: part_000 lines 139-141, the part that runs at once; called *)
(* says whether the operation reached its scheduleSave() call              *)
scheduleSave_noGuard(called) ==
    IF called
    THEN saveTimer' = TRUE /\ saveTimers' = saveTimers + 1
    ELSE UNCHANGED <<saveTimer, saveTimers>>

scheduleSave(called) ==
    IF called /\ ~saveTimer
    THEN saveTimer' = TRUE /\ saveTimers' = saveTimers + 1
    ELSE UNCHANGED <<saveTimer, saveTimers>>

NoSocketActivity ==
    /\ emitted' = <<>>
    /\ UNCHANGED <<connectedUsers, userSockets, disconnectTimers, timers, downloader>>

createUser(data) ==
    /\ store.nextUserId <= MaxUsers
    /\ LET r == createUserOp(store, data)
       IN  /\ store' = r.store
           /\ ret' = r.ret
           /\ scheduleSave(r.scheduleSave)
    /\ NoSocketActivity
    /\ UNCHANGED <<returnedIds, writes, disk, requests>>

saveMessage(userId, content, createdAt, replyToId) ==
    /\ Len(store.messages) < MaxMessages
    /\ LET r == saveMessageOp(store, userId, content, createdAt, replyToId)
       IN  /\ store' = r.store
           /\ ret' = r.ret
           /\ returnedIds' = Append(returnedIds, r.ret.objs[1].val.id)
           /\ scheduleSave(r.scheduleSave)
    /\ NoSocketActivity
    /\ UNCHANGED ioVars

deleteMessage(messageId, requestingUserId) ==
    /\ LET r == deleteMessageOp(store, messageId, requestingUserId)
       IN  /\ store' = r.store
           /\ ret' = r.ret
           /\ scheduleSave(r.scheduleSave)
    /\ NoSocketActivity
    /\ UNCHANGED <<returnedIds, writes, disk, requests>>

readMessageById(id) ==
    /\ ret' = [op |-> "getMessageById", res |-> "message", objs |-> getMessageById(store, id)]
    /\ NoSocketActivity
    /\ UNCHANGED <<store, returnedIds, saveTimer, saveTimers, writes, disk, requests>>

readMessagesPage(limit, beforeId) ==
    /\ ret' = [op |-> "getMessagesPage", res |-> "rows",
               objs |-> getMessagesPage(store, limit, beforeId)]
    /\ NoSocketActivity
    /\ UNCHANGED <<store, returnedIds, saveTimer, saveTimers, writes, disk, requests>>

(* The caller writes a field of the k-th object the last call returned.    *)
(* The write reaches the log when that object is a stored message.         *)
mutateReturned(k, field) ==
    /\ ret.op \in {"saveMessage", "getMessageById", "getMessagesPage"}
    /\ k \in DOMAIN ret.objs
    /\ LET ref == ret.objs[k].ref
           v == IF field = "content" THEN "tampered" ELSE 1 - ret.objs[k].val[field]
       IN  store' = IF ref = 0 THEN store
                    ELSE [store EXCEPT !.messages[ref][field] = v]
    /\ ret' = [op |-> "mutateReturned", res |-> field, objs |-> <<>>]
    /\ NoSocketActivity
    /\ UNCHANGED <<returnedIds, saveTimer, saveTimers, writes, disk, requests>>

(* saveMessage's arguments: a first user's message, a second user's reply, *)
(* a system message (null author, replyTo 0) and a reply to a later id     *)
MessageInputs ==
    { <<1, "a", 100, NULL>>, <<2, "b", 200, 1>>,
      <<NULL, "a", 200, 0>>, <<1, "b", 100, 2>> }
Limits == 0..MaxLimit
BeforeIds == 0..(MaxMessages + 2)

StoreUserData == {[email |-> "e1", display_name |-> "Al", is_verified |-> 1]}

NextStore ==
    \/ \E d \in StoreUserData : createUser(d)
    \/ \E m \in MessageInputs : saveMessage(m[1], m[2], m[3], m[4])
    \/ \E m \in 1..(MaxMessages + 1), u \in UserIds \cup {NULL} : deleteMessage(m, u)
    \/ \E m \in 1..(MaxMessages + 1) : readMessageById(m)
    \/ \E l \in Limits \cup {NULL}, b \in BeforeIds \cup {NULL} : readMessagesPage(l, b)
    \/ \E k \in 1..MaxMessages, f \in {"content", "is_deleted"} : mutateReturned(k, f)

SpecStore == Init /\ [][NextStore]_vars

PresenceUserData ==
    {[email |-> "e1", display_name |-> n, is_verified |-> 1] : n \in DisplayNames}

NextPresence ==
    \/ \E d \in PresenceUserData : createUser(d)
    \/ \E sid \in SocketIds, u \in UserIds \cup {NULL}, mode \in Modes :
         Connection(sid, u, mode)
    \/ \E sid \in SocketIds : Disconnect(sid)
    \/ TimerFire

SpecPresence == Init /\ [][NextPresence]_vars

(* the 3500 ms timer of user u fires: a timer that stays pending does fire *)
TimerFireFor(u) ==
    /\ \E t \in timers : t.userId = u /\ DepartureCallback(t)
    /\ UNCHANGED <<storeVars, downloader>>

SpecPresenceFair ==
    Init /\ [][NextPresence]_vars /\ \A u \in UserIds : WF_vars(TimerFireFor(u))

(***************************************************************************)
(* The mention resolver taken alone: users register, and extractMentions   *)
(* is applied to a text on behalf of a sender.                             *)
(***************************************************************************)
resolveMentions(text, senderId) ==
    /\ ret' = [op |-> "extractMentions", res |-> extractMentions(store, text, senderId),
               objs |-> <<>>, text |-> text, senderId |-> senderId]
    /\ NoSocketActivity
    /\ UNCHANGED <<store, returnedIds, saveTimer, saveTimers, writes, disk, requests>>

(* "hi", "@Bo", "@al @Bo", "@Al @al", "@Bo hi @Bo", "@Al@Bo", "@Bohi",     *)
(* "@Bo @Al"                                                               *)
MentionTexts ==
    { <<"hi">>, <<"@", "Bo">>, <<"@", "al", " ", "@", "Bo">>,
      <<"@", "Al", " ", "@", "al">>, <<"@", "Bo", " ", "hi", " ", "@", "Bo">>,
      <<"@", "Al", "@", "Bo">>, <<"@", "Bo", "hi">>, <<"@", "Bo", " ", "@", "Al">> }

Pieces == {" ", "@", "Al", "al", "Bo"}

(* every text of at most MaxTextLen pieces, and the longer ones above *)
Texts == MentionTexts \cup UNION {[1..n -> Pieces] : n \in 0..MaxTextLen}

NextMention ==
    \/ \E d \in PresenceUserData : createUser(d)
    \/ \E text \in MentionTexts, u \in UserIds : resolveMentions(text, u)

SpecMention == Init /\ [][NextMention]_vars

(***************************************************************************)
(* The chat handlers of a registered connection (theme.js lines 221-300).  *)
(* socket.data.userId is the user id connectedUsers keeps for the socket.  *)
(***************************************************************************)
TOO_LONG == "message too long"
NOT_VERIFIED == "email not verified"
NOT_YOURS == "not your message"

(* socket.emit('system-message', text) *)
PrivateNotice(sid, text) ==
    [ev |-> "system-message", scope |-> "self", sock |-> sid,
     text |-> <<text>>, about |-> NULL]

(* Set.prototype.forEach over socket ids, taken in ascending order *)
RECURSIVE SocketsInOrder(_)
SocketsInOrder(sockets) ==
    IF sockets = {} THEN <<>>
    ELSE LET sid == CHOOSE x \in sockets : \A y \in sockets : x <= y
         IN  <<sid>> \o SocketsInOrder(sockets \ {sid})

(* lines 277-288: io.to(sid).emit('mention', ...) for every socket of      *)
(* every id of mentions.ids                                                *)
RECURSIVE MentionEvents(_, _, _)
MentionEvents(us, ids, payload) ==
    IF ids = <<>> THEN <<>>
    ELSE LET sockets == IF MapHas(us, Head(ids))
                        THEN SocketsInOrder(MapSockets(us, Head(ids))) ELSE <<>>
         IN  [k \in DOMAIN sockets |->
                 [ev |-> "mention", scope |-> "socket", sock |-> sockets[k],
                  from |-> payload.author, text |-> payload.text,
                  time |-> payload.time, id |-> payload.id]]
             \o MentionEvents(us, Tail(ids), payload)

chatMessageAccepts_unverified(user) == TRUE

(* line 249: the sender's verification flag, read at handling time *)
chatMessageAccepts(user) == user.is_verified # 0

broadcastMessage_nothing(payload) == <<>>

(* line 275: io.emit('chat-message', payload) *)
broadcastMessage(payload) == << [ev |-> "chat-message", scope |-> "all", payload |-> payload] >>

(* JavaScript's typeof and truthiness over the payloads of the model: a   *)
(* payload is [type, contentType, content, replyTo], type being typeof     *)
(* data ("null" for null), contentType the same for data.content, content  *)
(* the text when data or data.content is a string                          *)
Falsy(data) ==
    \/ data.contentType \in {"undefined", "null", "zero", "false"}
    \/ data.contentType = "string" /\ data.content = <<>>

(* line 228: (data.content || '').trim() has no trim to call when          *)
(* data.content is truthy and no string                                    *)
ContentThrows(data) ==
    /\ data.type = "object"
    /\ ~Falsy(data)
    /\ data.contentType # "string"

(* lines 222-232 *)
ContentOf(data) ==
    IF data.type = "string" THEN trim(data.content)
    ELSE IF data.type = "object" /\ ~Falsy(data) THEN trim(data.content)
    ELSE <<>>

(* socket.on('chat-message'): lines 221-289, as the store it leaves, the   *)
(* events it emits, the ids it appended and whether an exception left it.  *)
(* now is Date.now().  socket.disconnect(true) in the branch of a vanished *)
(* sender closes the socket; its 'disconnect' handler is the Disconnect    *)
(* step that follows.                                                      *)
chatMessageHandler(s, us, userId, sid, data, now) ==
    LET content == ContentOf(data)
        replyToId == IF data.type = "object" THEN data.replyTo ELSE NULL
        freshUser == getUserById(s, userId)
    IN  IF ContentThrows(data)
        THEN [store |-> s, emitted |-> <<>>, appended |-> <<>>, threw |-> TRUE]
        ELSE IF content = <<>>
        THEN [store |-> s, emitted |-> <<>>, appended |-> <<>>, threw |-> FALSE]
        ELSE IF StringLength(content) > MAX_MESSAGE_LENGTH
        THEN [store |-> s, emitted |-> <<PrivateNotice(sid, TOO_LONG)>>,
              appended |-> <<>>, threw |-> FALSE]
        ELSE IF freshUser = <<>>
        THEN [store |-> s, appended |-> <<>>, threw |-> FALSE,
              emitted |-> << [ev |-> "auth-required", scope |-> "self", sock |-> sid] >>]
        ELSE IF ~chatMessageAccepts(freshUser[1])
        THEN [store |-> s, emitted |-> <<PrivateNotice(sid, NOT_VERIFIED)>>,
              appended |-> <<>>, threw |-> FALSE]
        ELSE LET mentions == extractMentions(s, content, freshUser[1].id)
                 r == saveMessageOp(s, freshUser[1].id, content, now, replyToId)
                 saved == r.ret.objs[1].val
                 payload == [formatMessagePayload(
                                [id |-> saved.id, user_id |-> freshUser[1].id,
                                 content |-> content, created_at |-> now,
                                 display_name |-> freshUser[1].display_name,
                                 email |-> freshUser[1].email,
                                 is_deleted |-> saved.is_deleted,
                                 reply_to_id |-> saved.reply_to_id])
                             EXCEPT !.mentions = mentions.ids]
             IN  [store |-> r.store, appended |-> <<saved.id>>, threw |-> FALSE,
                  emitted |-> broadcastMessage(payload)
                              \o MentionEvents(us, mentions.ids, payload)]

(* an exception that leaves the handler is caught nowhere and ends the     *)
(* process: the model has no step for it                                   *)
ChatMessage(sid, data, now) ==
    /\ sid \in DOMAIN connectedUsers
    /\ Len(store.messages) < MaxMessages
    /\ LET r == chatMessageHandler(store, userSockets, connectedUsers[sid], sid, data, now)
       IN  /\ ~r.threw
           /\ store' = r.store
           /\ returnedIds' = returnedIds \o r.appended
           /\ emitted' = r.emitted
           /\ scheduleSave(r.appended # <<>>)
    /\ UNCHANGED <<ret, connectedUsers, userSockets, disconnectTimers, timers>>
    /\ UNCHANGED <<ioVars, downloader>>

deleteBroadcasts_always(result) == TRUE

(* line 295: if (result.success) *)
deleteBroadcasts(result) == result.success

(* socket.on('delete-message'): lines 291-300; messageId NULL stands for a *)
(* value that is not an integer                                            *)
deleteMessageHandler(s, userId, sid, messageId) ==
    IF messageId = NULL
    THEN [store |-> s, scheduleSave |-> FALSE, emitted |-> <<>>]
    ELSE LET r == deleteMessageOp(s, messageId, userId)
             result == r.ret.res
         IN  [store |-> r.store, scheduleSave |-> r.scheduleSave,
              emitted |->
                 IF deleteBroadcasts(result)
                 THEN << [ev |-> "message-deleted", scope |-> "all",
                          messageId |-> messageId] >>
                 ELSE IF result.reason = "permission_denied"
                 THEN <<PrivateNotice(sid, NOT_YOURS)>>
                 ELSE <<>>]

(* the listener of line 291 with its parameter ({ messageId }): taking     *)
(* messageId out of a payload that is undefined or null raises TypeError;  *)
(* a payload is [type, messageId], messageId NULL when it is no integer    *)
deleteMessageListener(s, userId, sid, payload) ==
    IF payload.type \in {"undefined", "null"}
    THEN [store |-> s, scheduleSave |-> FALSE, emitted |-> <<>>, threw |-> TRUE]
    ELSE LET r == deleteMessageHandler(s, userId, sid, payload.messageId)
         IN  [store |-> r.store, scheduleSave |-> r.scheduleSave,
              emitted |-> r.emitted, threw |-> FALSE]

(* socket.on('history-request'): lines 302-323; params is [type, beforeId], *)
(* beforeId being Number(params.beforeId), NULL when that is no integer    *)
historyRequestHandler(s, sid, params) ==
    IF params.type # "object" THEN [emitted |-> <<>>, threw |-> FALSE]
    ELSE IF params.beforeId = NULL \/ params.beforeId <= 0
    THEN [emitted |-> <<>>, threw |-> FALSE]
    ELSE LET rows == getMessagesPage(s, HISTORY_PAGE_SIZE, params.beforeId)
             chunk == [k \in DOMAIN rows |-> formatMessagePayload(rows[k].val)]
         IN  [threw |-> FALSE,
              emitted |->
                  IF rows = <<>>
                  THEN << [ev |-> "history-chunk", scope |-> "self", sock |-> sid,
                           messages |-> <<>>, done |-> TRUE,
                           oldestId |-> params.beforeId] >>
                  ELSE << [ev |-> "history-chunk", scope |-> "self", sock |-> sid,
                           messages |-> chunk,
                           done |-> (Len(rows) < HISTORY_PAGE_SIZE),
                           oldestId |-> chunk[1].id] >>]

DeleteMessage(sid, messageId) ==
    /\ sid \in DOMAIN connectedUsers
    /\ LET r == deleteMessageHandler(store, connectedUsers[sid], sid, messageId)
       IN  /\ store' = r.store
           /\ emitted' = r.emitted
           /\ scheduleSave(r.scheduleSave)
    /\ UNCHANGED <<ret, returnedIds, connectedUsers, userSockets, disconnectTimers, timers>>
    /\ UNCHANGED <<ioVars, downloader>>

(* registrations: Bo with a verified email, Al with an email not verified *)
ChatUserData ==
    { [email |-> "e1", display_name |-> "Bo", is_verified |-> 1],
      [email |-> "e2", display_name |-> "Al", is_verified |-> 0] }

(* inbound chat-message payloads: a text of exactly 5000 characters,       *)
(* " @Al @bo " as a reply to message 1, "@Al @al"; then white space only,  *)
(* an object without content, and a text of 5001 characters                *)
ChatData ==
    { [type |-> "string", contentType |-> "undefined",
       content |-> <<FILLER, "@">>, replyTo |-> NULL],
      [type |-> "object", contentType |-> "string",
       content |-> <<" ", "@", "Al", " ", "@", "bo", " ">>, replyTo |-> 1],
      [type |-> "string", contentType |-> "undefined",
       content |-> <<"@", "Al", " ", "@", "al">>, replyTo |-> NULL],
      [type |-> "string", contentType |-> "undefined",
       content |-> <<" ">>, replyTo |-> NULL],
      [type |-> "object", contentType |-> "undefined",
       content |-> <<>>, replyTo |-> NULL],
      [type |-> "string", contentType |-> "undefined",
       content |-> <<FILLER, "Al">>, replyTo |-> NULL] }

(* payloads a client can send besides: none at all, null, a number, and    *)
(* objects whose content is 0, a number, an object, an array               *)
OtherChatData ==
    { [type |-> t, contentType |-> "undefined", content |-> <<>>, replyTo |-> NULL] :
          t \in {"undefined", "null", "number"} }
    \cup { [type |-> "object", contentType |-> t, content |-> <<>>, replyTo |-> r] :
              t \in {"zero", "number", "object", "array"}, r \in {NULL, 1} }

(* delete-message and history-request payloads *)
DeletePayloads ==
    { [type |-> "object", messageId |-> m] : m \in 1..(MaxMessages + 1) \cup {NULL} }
    \cup { [type |-> t, messageId |-> NULL] : t \in {"undefined", "null", "number"} }

HistoryParams ==
    { [type |-> "object", beforeId |-> b] : b \in 0..(MaxMessages + 1) \cup {NULL} }
    \cup { [type |-> t, beforeId |-> NULL] : t \in {"undefined", "null", "string"} }

Clock == {100}

NextChat ==
    \/ \E d \in ChatUserData : createUser(d)
    \/ \E sid \in SocketIds, u \in UserIds \cup {NULL} : Connection(sid, u, "chat")
    \/ \E sid \in SocketIds : Disconnect(sid)
    \/ TimerFire
    \/ \E sid \in SocketIds, data \in ChatData, now \in Clock : ChatMessage(sid, data, now)
    \/ \E sid \in SocketIds, m \in 1..(MaxMessages + 1) \cup {NULL} : DeleteMessage(sid, m)

SpecChat == Init /\ [][NextChat]_vars

(***************************************************************************)
(* The write-behind store file (src/unnamed/part_000 lines 139-147) and    *)
(* the remaining mutating operations of the store.                         *)
(***************************************************************************)
MaxWrites == 2
MaxRecords == 3
MaxFiles == 2

(* what store.json can hold besides a whole store: a mixture of two       *)
(* overlapped writes, a part of the content of a write that failed         *)
TORN == [torn |-> TRUE]
PARTIAL == [partial |-> TRUE]

updateUserProfile(data) ==
    /\ LET r == updateUserProfileOp(store, data)
       IN  /\ store' = r.store
           /\ ret' = r.ret
           /\ scheduleSave(r.scheduleSave)
    /\ NoSocketActivity
    /\ UNCHANGED <<returnedIds, writes, disk, requests>>

addUserSticker(data, hex) ==
    /\ LET r == addUserStickerOp(store, data, hex)
       IN  /\ store' = r.store
           /\ ret' = r.ret
           /\ scheduleSave(r.scheduleSave)
    /\ NoSocketActivity
    /\ UNCHANGED <<returnedIds, writes, disk, requests>>

removeUserSticker(data) ==
    /\ LET r == removeUserStickerOp(store, data)
       IN  /\ store' = r.store
           /\ ret' = r.ret
           /\ scheduleSave(r.scheduleSave)
    /\ NoSocketActivity
    /\ UNCHANGED <<returnedIds, writes, disk, requests>>

saveFileRecord(data) ==
    /\ Len(store.files) < MaxFiles
    /\ LET r == saveFileRecordOp(store, data)
       IN  /\ store' = r.store
           /\ ret' = r.ret
           /\ scheduleSave(r.scheduleSave)
    /\ NoSocketActivity
    /\ UNCHANGED <<returnedIds, writes, disk>>

(* the timer callback of scheduleSave, lines 141-146: it clears saveTimer  *)
(* and starts a writeFile of the store as it is serialised at that moment  *)
FlushTimerFire ==
    /\ saveTimers > 0
    /\ Len(writes) < MaxWrites
    /\ saveTimer' = FALSE
    /\ saveTimers' = saveTimers - 1
    /\ writes' = Append(writes, store)
    /\ NoSocketActivity
    /\ UNCHANGED <<store, ret, returnedIds, disk, requests>>

(* a writeFile in flight resolves; a write that overlapped another one on  *)
(* the same path may leave either its own content or a mixture             *)
WriteComplete(i, content) ==
    /\ i \in DOMAIN writes
    /\ content \in {writes[i]} \cup (IF Len(writes) > 1 THEN {TORN} ELSE {})
    /\ disk' = <<content>>
    /\ writes' = Splice(writes, i)
    /\ NoSocketActivity
    /\ UNCHANGED <<store, ret, returnedIds, saveTimer, saveTimers, requests>>

(* a failed write that puts the store back to its initial content *)
WriteFail_resetsStore(i, content) ==
    /\ i \in DOMAIN writes
    /\ content \in {disk, <<PARTIAL>>}
    /\ disk' = content
    /\ writes' = Splice(writes, i)
    /\ store' = defaultStore
    /\ NoSocketActivity
    /\ UNCHANGED <<ret, returnedIds, saveTimer, saveTimers, requests>>

(* a writeFile in flight rejects: line 145 logs the error; the file is as  *)
(* it was or holds a part of the content                                   *)
WriteFail(i, content) ==
    /\ i \in DOMAIN writes
    /\ content \in {disk, <<PARTIAL>>}
    /\ disk' = content
    /\ writes' = Splice(writes, i)
    /\ NoSocketActivity
    /\ UNCHANGED <<store, ret, returnedIds, saveTimer, saveTimers, requests>>

(* the count of records the store holds *)
RECURSIVE StickerCount(_)
StickerCount(users) ==
    IF users = <<>> THEN 0
    ELSE Len(Head(users).custom_stickers) + StickerCount(Tail(users))

Records(s) ==
    Len(s.users) + Len(s.messages) + Len(s.files) + StickerCount(s.users)

(* crypto.randomBytes(8): a value no sticker of the user carries *)
MaxStickerId(list) ==
    IF list = <<>> THEN 0
    ELSE CHOOSE m \in {list[i].id : i \in DOMAIN list} :
            \A i \in DOMAIN list : list[i].id <= m

FreshHex(s, userId) == MaxStickerId(getUserStickers(s, userId)) + 1

PersistUserData == {[email |-> "e1", display_name |-> "Al", is_verified |-> 1]}
PersistMessages == { <<1, "a", 100, NULL>> }
PersistStickers == {[id |-> 1, description |-> "d"]}
PersistRemovals == {[id |-> 1, stickerId |-> 1]}
PersistFiles == {[userId |-> 1, code |-> <<"A", "b">>]}
PersistProfiles == {[id |-> 1, displayName |-> "Bo"]}
WriteContents == {TORN} \cup {writes[i] : i \in DOMAIN writes}

NextPersist ==
    \/ Records(store) < MaxRecords /\ \E d \in PersistUserData : createUser(d)
    \/ Records(store) < MaxRecords
          /\ \E m \in PersistMessages : saveMessage(m[1], m[2], m[3], m[4])
    \/ deleteMessage(1, 1)
    \/ Records(store) < MaxRecords
          /\ \E d \in PersistStickers : addUserSticker(d, FreshHex(store, d.id))
    \/ \E d \in PersistRemovals : removeUserSticker(d)
    \/ Records(store) < MaxRecords
          /\ \E d \in PersistFiles : saveFileRecord(d) /\ UNCHANGED requests
    \/ \E d \in PersistProfiles : updateUserProfile(d)
    \/ FlushTimerFire
    \/ \E i \in 1..MaxWrites, c \in WriteContents : WriteComplete(i, c)
    \/ \E i \in 1..MaxWrites, c \in {disk, <<PARTIAL>>} : WriteFail(i, c)

SpecPersist == Init /\ [][NextPersist]_vars

(* a write in flight settles: it resolves or it rejects *)
WriteSettle ==
    \/ \E i \in 1..MaxWrites, c \in WriteContents : WriteComplete(i, c)
    \/ \E i \in 1..MaxWrites, c \in {disk, <<PARTIAL>>} : WriteFail(i, c)

(* a pending flush timer fires after its 50 ms and a write in flight       *)
(* settles                                                                 *)
SpecPersistFair ==
    Init /\ [][NextPersist]_vars /\ WF_vars(FlushTimerFire) /\ WF_vars(WriteSettle)

(***************************************************************************)
(* The sticker collections under any sequence of additions and removals.   *)
(***************************************************************************)
StickerUserData == {[email |-> "e1", display_name |-> "Al", is_verified |-> 1]}
StickerAdds == {[id |-> u, description |-> "d"] : u \in 1..(MaxUsers + 1)}
StickerRemovals ==
    {[id |-> u, stickerId |-> h] :
        u \in 1..(MaxUsers + 1), h \in {MAX_CUSTOM_STICKERS}}

NextStickers ==
    \/ \E d \in StickerUserData : createUser(d)
    \/ \E d \in StickerAdds : addUserSticker(d, FreshHex(store, d.id))
    \/ \E d \in StickerRemovals : removeUserSticker(d)

SpecStickers == Init /\ [][NextStickers]_vars

(***************************************************************************)
(* File codes and uploads (src/public/theme.js lines 764-813, 1230-1245).  *)
(***************************************************************************)
MaxRequests == 2
FILE_CODE_LENGTH == 8
FILE_CODE_ATTEMPTS == 5

FILE_CODE_ALPHABET ==
    << "A", "B", "C", "D", "E", "F", "G", "H", "J", "K", "L", "M", "N", "P", "Q",
       "R", "S", "T", "U", "V", "W", "X", "Y", "Z", "2", "3", "4", "5", "6", "7",
       "8", "9" >>

(* lines 1233-1237: the candidate built from eight crypto.randomInt values *)
CandidateOf(indices) == [i \in 1..FILE_CODE_LENGTH |-> FILE_CODE_ALPHABET[indices[i] + 1]]

HexDigits ==
    << "0", "1", "2", "3", "4", "5", "6", "7", "8", "9", "a", "b", "c", "d", "e", "f" >>

(* Buffer.prototype.toString('hex') *)
RECURSIVE ToHex(_)
ToHex(bytes) ==
    IF bytes = <<>> THEN <<>>
    ELSE << HexDigits[(Head(bytes) \div 16) + 1], HexDigits[(Head(bytes) % 16) + 1] >>
         \o ToHex(Tail(bytes))

(* String.prototype.slice(0, n) *)
Slice(str, n) == SubSeq(str, 1, IF n < Len(str) THEN n ELSE Len(str))

(* the do-while of lines 1231-1242 from attempt number attempts on: draws  *)
(* holds what crypto.randomInt yields for each candidate                   *)
RECURSIVE CodeLoop(_, _, _, _)
CodeLoop(s, draws, bytes, attempts) ==
    LET code == CandidateOf(draws[attempts + 1])
    IN  IF getFileByCode(s, code) = <<>>
        THEN [code |-> code, attempts |-> attempts + 1, fallback |-> FALSE]
        ELSE IF attempts + 1 < FILE_CODE_ATTEMPTS
        THEN CodeLoop(s, draws, bytes, attempts + 1)
        ELSE [code |-> Slice(toUpperCase(ToHex(bytes)), FILE_CODE_LENGTH),
              attempts |-> attempts + 1, fallback |-> TRUE]

(* generateFileCode: lines 1230-1245; attempts counts the candidates built *)
generateFileCode(s, draws, bytes) == CodeLoop(s, draws, bytes, 0)

(* the request number of a request that arrives *)
NewRequest == CHOOSE n \in 1..(Cardinality(requests) + 1) :
                  \A r \in requests : r.id # n

(* POST /api/files/upload up to the await of line 788 *)
UploadStart(userId, draws, bytes) ==
    /\ Cardinality(requests) < MaxRequests
    /\ getUserById(store, userId) # <<>>
    /\ LET g == generateFileCode(store, draws, bytes)
       IN  /\ requests' = requests \cup
                 {[id |-> NewRequest, route |-> "upload", userId |-> userId,
                   code |-> g.code, attempts |-> g.attempts, fallback |-> g.fallback]}
           /\ ret' = [op |-> "generateFileCode", res |-> g.code, objs |-> <<>>]
    /\ NoSocketActivity
    /\ UNCHANGED <<store, returnedIds, saveTimer, saveTimers, writes, disk>>

(* uploadObject resolved: lines 795-808 *)
UploadDone(r) ==
    /\ r \in requests
    /\ r.route = "upload"
    /\ saveFileRecord([userId |-> r.userId, code |-> r.code])
    /\ requests' = requests \ {r}

(* uploadObject rejected: lines 809-812 *)
UploadFail(r) ==
    /\ r \in requests
    /\ r.route = "upload"
    /\ requests' = requests \ {r}
    /\ ret' = [op |-> "upload", res |-> 500, objs |-> <<>>]
    /\ NoSocketActivity
    /\ UNCHANGED <<store, returnedIds, saveTimer, saveTimers, writes, disk>>

FileUserData == {[email |-> "e1", display_name |-> "Al", is_verified |-> 1]}

(* what crypto.randomInt can yield for a candidate, and crypto.randomBytes *)
(* for the fallback                                                        *)
IndexDraws == { [i \in 1..FILE_CODE_LENGTH |-> 0], [i \in 1..FILE_CODE_LENGTH |-> 31] }
CandidateDraws ==
    { [k \in 1..FILE_CODE_ATTEMPTS |-> IF k = 1 THEN a ELSE b] : a, b \in IndexDraws }
ByteDraws == { <<0, 17, 171, 205, 239, 1>>, <<170, 187, 204, 221, 238, 255>> }

NextFiles ==
    \/ \E d \in FileUserData : createUser(d)
    \/ \E u \in UserIds, draws \in CandidateDraws, bytes \in ByteDraws :
          UploadStart(u, draws, bytes)
    \/ \E r \in requests : UploadDone(r)
    \/ \E r \in requests : UploadFail(r)

SpecFiles == Init /\ [][NextFiles]_vars

(***************************************************************************)
(* Registration (src/public/theme.js lines 338-420).  The email is the     *)
(* normalised one; the validations of lines 347-364 have passed.           *)
(***************************************************************************)

(* POST /api/auth/register up to the await of line 392; an email that is   *)
(* taken is answered with 409 at lines 366-370                             *)
RegisterStart(email, displayName) ==
    /\ Cardinality(requests) < MaxRequests
    /\ IF getUserByEmail(store, email) # <<>>
       THEN /\ ret' = [op |-> "register", res |-> 409, objs |-> <<>>]
            /\ UNCHANGED requests
       ELSE /\ ret' = [op |-> "register", res |-> "hashing", objs |-> <<>>]
            /\ requests' = requests \cup
                  {[id |-> NewRequest, route |-> "register", email |-> email,
                    displayName |-> displayName]}
    /\ NoSocketActivity
    /\ UNCHANGED <<store, returnedIds, saveTimer, saveTimers, writes, disk>>

(* bcrypt.hash resolved: lines 393-405 *)
RegisterDone(r) ==
    /\ r \in requests
    /\ r.route = "register"
    /\ store.nextUserId <= MaxUsers
    /\ LET c == createUserOp(store, [email |-> r.email,
                                     display_name |-> r.displayName,
                                     is_verified |-> 0])
       IN  /\ store' = c.store
           /\ ret' = c.ret
           /\ scheduleSave(c.scheduleSave)
    /\ requests' = requests \ {r}
    /\ NoSocketActivity
    /\ UNCHANGED <<returnedIds, writes, disk>>

(* bcrypt.hash rejected: the catch of the route answers 500 *)
RegisterFail(r) ==
    /\ r \in requests
    /\ r.route = "register"
    /\ requests' = requests \ {r}
    /\ ret' = [op |-> "register", res |-> 500, objs |-> <<>>]
    /\ NoSocketActivity
    /\ UNCHANGED <<store, returnedIds, saveTimer, saveTimers, writes, disk>>

RegisterEmails == {"e1", "e2"}

NextRegister ==
    \/ \E e \in RegisterEmails, n \in DisplayNames : RegisterStart(e, n)
    \/ \E r \in requests : RegisterDone(r)
    \/ \E r \in requests : RegisterFail(r)

SpecRegister == Init /\ [][NextRegister]_vars

(***************************************************************************)
(* Vocabulary of the presence claims.  The live connections of a user are  *)
(* read from connectedUsers, the socket's own record, and a pending timer  *)
(* from the runtime's queue, not from the registry's bookkeeping.          *)
(***************************************************************************)
LiveSockets(u) == {sid \in DOMAIN connectedUsers : connectedUsers[sid] = u}

GracePending(u) == \E t \in timers : t.userId = u

(* this step registers a connection of u *)
Registers(u) ==
    \E sid \in SocketIds :
        /\ sid \notin DOMAIN connectedUsers
        /\ sid \in DOMAIN connectedUsers'
        /\ connectedUsers'[sid] = u

(* this step is the firing of a departure timer of u *)
FiresFor(u) ==
    /\ \E t \in timers : t.userId = u /\ t \notin timers'
    /\ ~Registers(u)

Notices(em, u, what) ==
    {i \in DOMAIN em : /\ em[i].ev = "system-message"
                       /\ em[i].about = u
                       /\ em[i].text[2] = what}

RosterUpdates(em) == {i \in DOMAIN em : em[i].ev = "roster-update"}

Broadcasts(em) == {i \in DOMAIN em : em[i].ev \in {"system-message", "roster-update"}}

RosterIds(roster) == {roster[i].id : i \in DOMAIN roster}

DisplayNameOf(u) == getUserById(store, u)[1].display_name

(* C2: when the last connection of u drops, a timer is started and nothing *)
(* is broadcast; when a connection of u registers while that timer is      *)
(* pending, the timer is cancelled and no 'left', no 'joined' and no       *)
(* roster-update is broadcast.                                             *)
C2_FlapSuppression ==
    [][\A u \in UserIds :
         /\ (LiveSockets(u) # {} /\ LiveSockets(u)' = {})
              => /\ GracePending(u)'
                 /\ Broadcasts(emitted') = {}
         /\ (Registers(u) /\ GracePending(u))
              => /\ ~GracePending(u)'
                 /\ u \notin DOMAIN disconnectTimers'
                 /\ Broadcasts(emitted') = {}]_vars

(* a state right after a reconnect inside the grace window: u's only       *)
(* connection has just registered and no 'joined' went out                 *)
C2_Witness ==
    \E u \in UserIds :
        /\ emitted # <<>>
        /\ emitted[1].ev \in {"presence-init", "chat-init"}
        /\ emitted[1].self.id = u
        /\ Cardinality(LiveSockets(u)) = 1
        /\ Notices(emitted, u, JOINED) = {}

(* C3: a 'left' notice for u goes out only while u has no live connection; *)
(* once a connection of u has registered no timer of u is left in the      *)
(* runtime's queue, and u's entry is only ever removed while u has no live *)
(* connection.                                                             *)
C3_ReconnectWins ==
    [][\A u \in UserIds :
         /\ Notices(emitted', u, LEFT) # {}
              => (LiveSockets(u) = {} /\ LiveSockets(u)' = {})
         /\ Registers(u) => ~GracePending(u)'
         /\ (MapHas(userSockets, u) /\ ~MapHas(userSockets', u))
              => (LiveSockets(u) = {} /\ LiveSockets(u)' = {})]_vars

(* a user back online after a grace window, next to a timer still pending  *)
(* for another user                                                        *)
C3_Witness ==
    \E u, w \in UserIds :
        /\ u # w
        /\ emitted # <<>>
        /\ emitted[1].ev \in {"presence-init", "chat-init"}
        /\ emitted[1].self.id = u
        /\ Cardinality(LiveSockets(u)) = 1
        /\ Notices(emitted, u, JOINED) = {}
        /\ GracePending(w)

(* C4: a registration of u broadcasts 'joined' for u exactly when u had no *)
(* live connection and no pending timer before it, and then exactly once;  *)
(* no other step broadcasts 'joined' for u.                                *)
C4_JoinedIffFirst ==
    [][\A u \in UserIds :
         /\ Registers(u)
              => /\ (Notices(emitted', u, JOINED) # {})
                       <=> (LiveSockets(u) = {} /\ ~GracePending(u))
                 /\ Cardinality(Notices(emitted', u, JOINED)) <= 1
         /\ ~Registers(u) => Notices(emitted', u, JOINED) = {}]_vars

(* a second connection of an online user has registered without a notice   *)
C4_Witness ==
    \E u \in UserIds :
        /\ emitted # <<>>
        /\ emitted[1].ev \in {"presence-init", "chat-init"}
        /\ emitted[1].self.id = u
        /\ Cardinality(LiveSockets(u)) = 2
        /\ Notices(emitted, u, JOINED) = {}

(* C5: when the departure timer of X fires and X has no live connection,   *)
(* exactly one 'X left' system-message and then exactly one roster-update  *)
(* without X are broadcast, and X's presence entry is gone.                *)
C5_DepartureAnnounced ==
    [][\A u \in UserIds :
         (FiresFor(u) /\ LiveSockets(u) = {})
           => /\ Cardinality(Notices(emitted', u, LEFT)) = 1
              /\ Cardinality({i \in DOMAIN emitted' : emitted'[i].ev = "system-message"}) = 1
              /\ \A i \in Notices(emitted', u, LEFT) :
                    emitted'[i].text[1] = DisplayNameOf(u)
              /\ Cardinality(RosterUpdates(emitted')) = 1
              /\ \A i \in Notices(emitted', u, LEFT), j \in RosterUpdates(emitted') :
                    /\ i < j
                    /\ u \notin RosterIds(emitted'[j].roster)
              /\ ~MapHas(userSockets', u)]_vars

(* a departure has been announced while somebody else is still online      *)
C5_Witness ==
    \E u \in UserIds :
        /\ Notices(emitted, u, LEFT) # {}
        /\ userSockets # <<>>
        /\ ~MapHas(userSockets, u)

(* C6: u has a presence entry (counts as online, is listed in the roster)  *)
(* exactly when u has a live connection or a pending departure timer, and  *)
(* the entry is removed exactly by the timer firing with no live           *)
(* connection.                                                             *)
C6_EntryIffOnline ==
    /\ [](\A u \in UserIds :
            /\ MapHas(userSockets, u) <=> (LiveSockets(u) # {} \/ GracePending(u))
            /\ MapHas(userSockets, u) <=> u \in RosterIds(buildRoster(store, userSockets))
            /\ Len(userSockets) = Cardinality(MapKeys(userSockets)))
    /\ [][\A u \in UserIds :
            /\ (MapHas(userSockets, u) /\ ~MapHas(userSockets', u))
                 => (FiresFor(u) /\ LiveSockets(u) = {})
            /\ (FiresFor(u) /\ LiveSockets(u) = {}) => ~MapHas(userSockets', u)]_vars

(* one user in the grace window and another online                         *)
C6_Witness ==
    \E u, w \in UserIds :
        /\ MapHas(userSockets, u) /\ LiveSockets(u) = {} /\ GracePending(u)
        /\ MapHas(userSockets, w) /\ LiveSockets(w) # {}

(***************************************************************************)
(* Claims about the message log.                                           *)
(***************************************************************************)
MessageIds(s) == [i \in DOMAIN s.messages |-> s.messages[i].id]

StrictlyIncreasing(seq) == \A i, j \in DOMAIN seq : i < j => seq[i] < seq[j]

(* C1: the ids saveMessage returns are strictly increasing in call order,  *)
(* whatever other store calls come in between, and the stored log is       *)
(* ordered by ascending id, holds no id twice, and holds the returned ids  *)
(* in the order of the calls.                                              *)
C1_IdsStrictlyIncreasing ==
    /\ StrictlyIncreasing(returnedIds)
    /\ StrictlyIncreasing(MessageIds(store))
    /\ MessageIds(store) = returnedIds

(* two appends with a user creation and a deletion in between              *)
C1_Witness ==
    /\ Len(returnedIds) >= 2
    /\ store.users # <<>>
    /\ \E i \in DOMAIN store.messages : store.messages[i].is_deleted = 1

(* C7: a step never removes or moves a message and never changes its id,   *)
(* author, content, timestamp or reply-to id; its soft-delete flag only    *)
(* goes from 0 to 1; what the store's calls return are copies, so a write  *)
(* to a returned object leaves the store as it was.                        *)
C7_MessagesImmutable ==
    [][/\ Len(store'.messages) >= Len(store.messages)
       /\ \A i \in DOMAIN store.messages :
            /\ store'.messages[i].id = store.messages[i].id
            /\ store'.messages[i].user_id = store.messages[i].user_id
            /\ store'.messages[i].content = store.messages[i].content
            /\ store'.messages[i].created_at = store.messages[i].created_at
            /\ store'.messages[i].reply_to_id = store.messages[i].reply_to_id
            /\ store'.messages[i].is_deleted \in {0, 1}
            /\ store'.messages[i].is_deleted >= store.messages[i].is_deleted
       /\ (ret.objs # <<>> /\ ret'.op = "mutateReturned") => store' = store]_vars

(* the caller has written to an object a call returned, with a deleted     *)
(* message and a reply in the log                                          *)
C7_Witness ==
    /\ ret.op = "mutateReturned"
    /\ \E i \in DOMAIN store.messages : store.messages[i].is_deleted = 1
    /\ \E i \in DOMAIN store.messages : store.messages[i].reply_to_id # NULL

Already == [success |-> TRUE, already |-> TRUE]

(* C8: for the author, deleteMessage on an undeleted message returns       *)
(* {success:true} and sets only that message's flag; on a deleted message, *)
(* and so on every later call, it returns {success:true, already:true} and *)
(* leaves the store as it is.                                              *)
C8_DeleteIdempotent ==
    \A i \in DOMAIN store.messages :
        LET m == store.messages[i]
            first == deleteMessageOp(store, m.id, m.user_id)
            second == deleteMessageOp(first.store, m.id, m.user_id)
        IN  /\ m.is_deleted = 0
                => /\ first.ret.res = [success |-> TRUE]
                   /\ first.store = [store EXCEPT !.messages[i].is_deleted = 1]
            /\ m.is_deleted = 1
                => /\ first.ret.res = Already
                   /\ first.store = store
            /\ second.ret.res = Already
            /\ second.store = first.store
            /\ second.store.messages[i].content = m.content

(* the author has called deleteMessage on a message already deleted        *)
C8_Witness ==
    /\ ret.op = "deleteMessage"
    /\ ret.res = Already

(* C9: deleteMessage by anyone but the author returns permission_denied    *)
(* and changes nothing, deleted or not and for a null author too; for an   *)
(* id that is not in the log it returns not_found and changes nothing.     *)
C9_DeleteDenied ==
    \A messageId \in 0..(MaxMessages + 1), requester \in UserIds \cup {NULL} :
        LET r == deleteMessageOp(store, messageId, requester)
            hits == {i \in DOMAIN store.messages : store.messages[i].id = messageId}
        IN  /\ hits = {}
                => /\ r.ret.res = [success |-> FALSE, reason |-> "not_found"]
                   /\ r.store = store
                   /\ ~r.scheduleSave
            /\ (hits # {} /\ \A i \in hits : store.messages[i].user_id # requester)
                => /\ r.ret.res = [success |-> FALSE, reason |-> "permission_denied"]
                   /\ r.store = store
                   /\ ~r.scheduleSave

(* a request was denied while the log holds a deleted message and a        *)
(* message with a null author                                              *)
C9_Witness ==
    /\ ret.op = "deleteMessage"
    /\ ret.res = [success |-> FALSE, reason |-> "permission_denied"]
    /\ \E i \in DOMAIN store.messages :
          store.messages[i].is_deleted = 1 /\ store.messages[i].user_id # NULL
    /\ \E i \in DOMAIN store.messages : store.messages[i].user_id = NULL

(* C10: getMessagesPage(limit, beforeId) returns at most limit rows, in    *)
(* strictly ascending id order, and with a beforeId no row with an id      *)
(* greater than or equal to it.                                            *)
C10_PageBounded ==
    \A limit \in Limits, beforeId \in BeforeIds \cup {NULL} :
        LET page == getMessagesPage(store, limit, beforeId)
        IN  /\ Len(page) <= limit
            /\ \A i, j \in DOMAIN page : i < j => page[i].val.id < page[j].val.id
            /\ beforeId # NULL => \A i \in DOMAIN page : page[i].val.id < beforeId

(* a page that was cut: rows were returned, fewer than the log holds       *)
C10_Witness ==
    /\ ret.op = "getMessagesPage"
    /\ ret.objs # <<>>
    /\ Len(ret.objs) < Len(store.messages)

(***************************************************************************)
(* Backward pagination: the caller asks for the newest page, then for the  *)
(* page before the smallest id it was given (the oldestId of the reply,    *)
(* chunk[0].id), until a page comes back shorter than the limit.  The walk *)
(* is the sequence of the pages' ids; it is cut after fuel further calls.  *)
(***************************************************************************)
PageIds(page) == [i \in DOMAIN page |-> page[i].val.id]

RECURSIVE BackwardWalk(_, _, _, _)
BackwardWalk(s, limit, beforeId, fuel) ==
    LET ids == PageIds(getMessagesPage(s, limit, beforeId))
    IN  IF Len(ids) < limit \/ fuel = 0 THEN <<ids>>
        ELSE <<ids>> \o BackwardWalk(s, limit, ids[1], fuel - 1)

(* the messages a page can return: their author exists or is null *)
Pageable(s) == SelectSeq(s.messages, LAMBDA msg : PageRow(s, msg) # <<>>)

(* C11: for every log and every limit >= 1, the walk from the newest page  *)
(* has a strictly decreasing cursor (every id of a page is below the       *)
(* smallest id of the page before it), every page but the last is full,    *)
(* and a page shorter than the limit comes after at most                   *)
(* Len(messages) / limit + 1 calls.                                        *)
C11_BackwardWalkTerminates ==
    \A limit \in 1..MaxLimit :
        LET walk == BackwardWalk(store, limit, NULL, Len(store.messages) + 1)
            n == Len(walk)
        IN  /\ Len(walk[n]) < limit
            /\ n <= (Len(store.messages) \div limit) + 1
            /\ \A k \in 1..(n - 1) :
                 /\ Len(walk[k]) = limit
                 /\ \A i \in DOMAIN walk[k + 1] : walk[k + 1][i] < walk[k][1]

(* a page was read from a log whose walk with limit 1 takes three calls:   *)
(* two full pages, then an empty one                                       *)
C11_Witness ==
    /\ ret.op = "getMessagesPage"
    /\ ret.objs # <<>>
    /\ Len(BackwardWalk(store, 1, NULL, Len(store.messages) + 1)) = 3

(* C12: a page shorter than its limit means there is no more history: no   *)
(* message a page can return has an id below every returned id, or below   *)
(* beforeId when the page is empty (any id when there is no beforeId).     *)
C12_ShortPageIsLast ==
    \A limit \in 1..MaxLimit, beforeId \in BeforeIds \cup {NULL} :
        LET ids == PageIds(getMessagesPage(store, limit, beforeId))
            cursor == IF ids # <<>> THEN ids[1] ELSE beforeId
            older == SelectSeq(Pageable(store),
                               LAMBDA msg : cursor = NULL \/ msg.id < cursor)
        IN  Len(ids) < limit => older = <<>>

(***************************************************************************)
(* Claims about the mention resolver.                                      *)
(***************************************************************************)
MapIds(map) == {map[k].id : k \in DOMAIN map}

SeqIds(ids) == {ids[k] : k \in DOMAIN ids}

(* the user a matched name resolves to, NULL when there is none *)
ResolvedId(s, name) ==
    LET user == getUserByDisplayName(s, name)
    IN  IF user = <<>> THEN NULL ELSE user[1].id

(* C16: for every text and every sender, neither the id list nor the       *)
(* name -> id map that extractMentions returns holds the sender's id.      *)
C16_SenderExcluded ==
    \A text \in Texts, senderId \in UserIds :
        LET r == extractMentions(store, text, senderId)
        IN  /\ senderId \notin SeqIds(r.ids)
            /\ senderId \notin MapIds(r.map)

(* the sender mentioned their own name in another letter case and another  *)
(* user besides                                                            *)
C16_Witness ==
    /\ ret.op = "extractMentions"
    /\ ret.res.ids # <<>>
    /\ \E k \in DOMAIN RegexMatches(ret.text, 1) :
          LET name == RegexMatches(ret.text, 1)[k]
          IN  /\ ResolvedId(store, name) = ret.senderId
              /\ name[1] # getUserById(store, ret.senderId)[1].display_name

(* the place of the first match in the text that resolves to user id *)
FirstMention(s, text, id) ==
    LET names == RegexMatches(text, 1)
    IN  CHOOSE k \in DOMAIN names :
            /\ ResolvedId(s, names[k]) = id
            /\ \A j \in 1..(k - 1) : ResolvedId(s, names[j]) # id

(* C17: for every text and every sender, the id list of extractMentions    *)
(* holds each resolved user once, however often and in whatever letter     *)
(* case the name is mentioned, and in the order of the first mentions.     *)
C17_EachUserOnce ==
    \A text \in Texts, senderId \in {store.users[k].id : k \in DOMAIN store.users} :
        LET ids == extractMentions(store, text, senderId).ids
        IN  \A i, j \in DOMAIN ids :
                i < j => /\ ids[i] # ids[j]
                         /\ FirstMention(store, text, ids[i])
                               < FirstMention(store, text, ids[j])

(***************************************************************************)
(* Claims about the chat handlers.                                         *)
(***************************************************************************)
EventsOf(em, ev) == SelectSeq(em, LAMBDA e : e.ev = ev)

(* the ids the 'chat-message' broadcasts of em carry, in order *)
BroadcastIds(em) ==
    LET bs == EventsOf(em, "chat-message") IN [k \in DOMAIN bs |-> bs[k].payload.id]

(* the ids of the messages a step appends to the log *)
AppendedIds ==
    LET ids == MessageIds(store')
    IN  SubSeq(ids, Len(store.messages) + 1, Len(ids))

(* C13: the 'chat-message' broadcasts of a step carry exactly the ids of   *)
(* the messages the step appends, in append order: one broadcast to        *)
(* everyone per appended message, none for anything else; and a broadcast  *)
(* id is above every id already in the log, so above every id broadcast    *)
(* before.                                                                 *)
C13_BroadcastInAppendOrder ==
    [][/\ BroadcastIds(emitted') = AppendedIds
       /\ \A k \in DOMAIN emitted' :
            emitted'[k].ev = "chat-message"
               => /\ emitted'[k].scope = "all"
                  /\ \A i \in DOMAIN store.messages :
                        store.messages[i].id < emitted'[k].payload.id]_vars

(* the second message of the log has just been broadcast, after a deletion *)
C13_Witness ==
    /\ BroadcastIds(emitted) = <<2>>
    /\ Len(store.messages) = 2
    /\ store.messages[1].is_deleted = 1

Mentions(em) == EventsOf(em, "mention")

(* the inbound payload is one the handler must refuse for this sender *)
Refused(data, userId) ==
    \/ trim(data.content) = <<>>
    \/ StringLength(trim(data.content)) > MAX_MESSAGE_LENGTH
    \/ /\ getUserById(store, userId) # <<>>
       /\ getUserById(store, userId)[1].is_verified = 0

(* C14: for every connection and every inbound payload whose trimmed       *)
(* content is empty or longer than 5000 characters, or whose sender is not *)
(* verified when it is handled, the handler leaves the store as it is,     *)
(* appends no id, and emits nothing but at most one notice to the sending  *)
(* connection: no 'chat-message', no 'mention'.                            *)
C14_RejectedLeavesNoTrace ==
    \A sid \in DOMAIN connectedUsers, data \in ChatData, now \in Clock :
        LET r == chatMessageHandler(store, userSockets, connectedUsers[sid],
                                    sid, data, now)
        IN  Refused(data, connectedUsers[sid])
               => /\ r.store = store
                  /\ r.appended = <<>>
                  /\ Len(r.emitted) <= 1
                  /\ \A k \in DOMAIN r.emitted :
                        /\ r.emitted[k].ev = "system-message"
                        /\ r.emitted[k].scope = "self"
                        /\ r.emitted[k].sock = sid

(* an unverified sender has just been refused while a verified user and a  *)
(* message are there                                                       *)
C14_Witness ==
    /\ \E sid \in SocketIds : emitted = <<PrivateNotice(sid, NOT_VERIFIED)>>
    /\ store.messages # <<>>
    /\ Cardinality({connectedUsers[sid] : sid \in DOMAIN connectedUsers}) = 2

(* the users the text of a payload names, the sender left out *)
Mentioned(data, userId) ==
    LET names == RegexMatches(trim(data.content), 1)
    IN  {ResolvedId(store, names[k]) : k \in DOMAIN names} \ {NULL, userId}

(* C15: when a verified sender's message is accepted, every live           *)
(* connection of every other user its text names receives exactly one      *)
(* 'mention' event, carrying the message's text, and no other connection   *)
(* (the sender's included) receives any.                                   *)
C15_OneMentionPerConnection ==
    \A sid \in DOMAIN connectedUsers, data \in ChatData, now \in Clock :
        LET r == chatMessageHandler(store, userSockets, connectedUsers[sid],
                                    sid, data, now)
            mentioned == Mentioned(data, connectedUsers[sid])
        IN  r.appended # <<>>
               => \A s2 \in SocketIds :
                     LET got == SelectSeq(Mentions(r.emitted), LAMBDA e : e.sock = s2)
                     IN  /\ Len(got) = IF /\ s2 \in DOMAIN connectedUsers
                                          /\ connectedUsers[s2] \in mentioned
                                       THEN 1 ELSE 0
                         /\ \A k \in DOMAIN got :
                               /\ got[k].text = <<trim(data.content)>>
                               /\ got[k].id = r.appended[1]

(* C18: for every connection and every message id, 'message-deleted' is    *)
(* broadcast exactly when deleteMessage reports success; a request by      *)
(* someone who is not the author changes nothing and emits only a notice   *)
(* to the requesting connection; a request for an id that is not in the    *)
(* log, or that is no integer, changes nothing and emits nothing.          *)
C18_DeleteBroadcastOnSuccess ==
    \A sid \in DOMAIN connectedUsers, messageId \in 0..(MaxMessages + 1) \cup {NULL} :
        LET r == deleteMessageHandler(store, connectedUsers[sid], sid, messageId)
            result == deleteMessageOp(store, messageId, connectedUsers[sid]).ret.res
            i == FindMessage(store, messageId)
        IN  /\ (EventsOf(r.emitted, "message-deleted") # <<>>)
                  <=> (messageId # NULL /\ result.success)
            /\ (messageId # NULL /\ result.success)
                  => r.emitted = << [ev |-> "message-deleted", scope |-> "all",
                                     messageId |-> messageId] >>
            /\ (i # 0 /\ store.messages[i].user_id # connectedUsers[sid])
                  => /\ r.emitted = <<PrivateNotice(sid, NOT_YOURS)>>
                     /\ r.store = store
            /\ (i = 0 \/ messageId = NULL)
                  => /\ r.emitted = <<>>
                     /\ r.store = store

(* a user who is not the author has just been refused, the author being    *)
(* connected and another message already deleted                           *)
C18_Witness ==
    /\ \E sid \in SocketIds : emitted = <<PrivateNotice(sid, NOT_YOURS)>>
    /\ \E i \in DOMAIN store.messages : store.messages[i].is_deleted = 1
    /\ \E sid \in DOMAIN connectedUsers, i \in DOMAIN store.messages :
          store.messages[i].user_id = connectedUsers[sid]

(***************************************************************************)
(* Claims about the connection handler.                                    *)
(***************************************************************************)
(* C19: a connection whose session holds no user id, or the id of a user   *)
(* that does not exist, is sent 'auth-required' and nothing else is        *)
(* emitted; no map or set entry is added, no timer is started or           *)
(* cancelled, and the store is left as it is.                              *)
C19_RejectedConnectionFrame ==
    [][\A sid \in SocketIds, u \in UserIds \cup {NULL}, mode \in Modes :
          (Connection(sid, u, mode) /\ (u = NULL \/ getUserById(store, u) = <<>>))
             => /\ emitted' = << [ev |-> "auth-required", scope |-> "self",
                                  sock |-> sid] >>
                /\ UNCHANGED <<connectedUsers, userSockets, disconnectTimers,
                               timers, store>>]_vars

(* a connection has just been refused while one user is connected and      *)
(* another is in the grace window                                          *)
C19_Witness ==
    /\ Len(emitted) = 1
    /\ emitted[1].ev = "auth-required"
    /\ connectedUsers # <<>>
    /\ timers # {}

(* the users that are online: a live connection or a pending departure *)
Online == {u \in UserIds : LiveSockets(u) # {} \/ GracePending(u)}

InitEvents(em) == SelectSeq(em, LAMBDA e : e.ev \in {"presence-init", "chat-init"})

(* C20: the roster and the online count of a 'chat-init' or                *)
(* 'presence-init' are those of the state the handler leaves: the roster   *)
(* holds the connecting user and exactly the users that are online (joined *)
(* and not yet departed), and the count is their number.                   *)
C20_InitSnapshotAfterRegistration ==
    \A k \in DOMAIN InitEvents(emitted) :
        LET e == InitEvents(emitted)[k]
        IN  /\ e.sock \in DOMAIN connectedUsers
            /\ e.self.id = connectedUsers[e.sock]
            /\ e.self.id \in RosterIds(e.roster)
            /\ RosterIds(e.roster) = Online
            /\ Len(e.roster) = Cardinality(Online)
            /\ e.online = Cardinality(Online)

(* a user has just connected for the first time while another user is in   *)
(* the grace window: the snapshot holds both                               *)
C20_Witness ==
    /\ InitEvents(emitted) # <<>>
    /\ Len(InitEvents(emitted)[1].roster) = 2
    /\ \E i \in DOMAIN emitted : emitted[i].ev = "roster-update"
    /\ \E u \in UserIds : GracePending(u) /\ LiveSockets(u) = {}

(***************************************************************************)
(* Claims about the write-behind store file.                               *)
(***************************************************************************)

(* C21: at most one write of the store file is in flight at any time: a    *)
(* flush never starts a write while an earlier write has not completed.    *)
C21_SingleWriteInFlight == Len(writes) <= 1

(* this step is a flush step: the timer firing, a write ending *)
FlushStep ==
    \/ FlushTimerFire
    \/ \E i \in 1..MaxWrites, c \in WriteContents : WriteComplete(i, c)
    \/ \E i \in 1..MaxWrites, c \in {disk, <<PARTIAL>>} : WriteFail(i, c)

(* C22: when a mutating operation returns, its whole effect is in the      *)
(* in-memory store, where every later read finds it whatever the state of  *)
(* the flush: the operation returns without a write having started or      *)
(* ended, and no flush step changes what the reads see.                    *)
C22_MutationVisibleAtReturn ==
    [][/\ \A d \in PersistUserData :
            createUser(d) =>
               /\ getUserById(store', store.nextUserId) = <<ret'.objs[1].val>>
               /\ getUserByEmail(store', d.email) # <<>>
               /\ ret'.objs[1].val.display_name = d.display_name
               /\ UNCHANGED <<writes, disk>>
       /\ \A m \in PersistMessages :
            saveMessage(m[1], m[2], m[3], m[4]) =>
               /\ getMessageById(store', store.nextMessageId) # <<>>
               /\ getMessageById(store', store.nextMessageId)[1].val.content = m[2]
               /\ getMessageById(store', store.nextMessageId)[1].val.is_deleted = 0
               /\ UNCHANGED <<writes, disk>>
       /\ (deleteMessage(1, 1) /\ ret'.res.success) =>
               /\ getMessageById(store', 1)[1].val.is_deleted = 1
               /\ UNCHANGED <<writes, disk>>
       /\ \A d \in PersistStickers :
            (addUserSticker(d, FreshHex(store, d.id)) /\ ret'.res.success) =>
               /\ getUserStickers(store', d.id) =
                     Append(getUserStickers(store, d.id),
                            [id |-> FreshHex(store, d.id), description |-> d.description])
               /\ UNCHANGED <<writes, disk>>
       /\ \A d \in PersistRemovals :
            (removeUserSticker(d) /\ ret'.res.success) =>
               /\ Len(getUserStickers(store', d.id)) =
                     Len(getUserStickers(store, d.id)) - 1
               /\ \A i \in DOMAIN getUserStickers(store', d.id) :
                     getUserStickers(store', d.id)[i].id # d.stickerId
               /\ UNCHANGED <<writes, disk>>
       /\ \A d \in PersistFiles :
            (saveFileRecord(d) /\ UNCHANGED requests) =>
               /\ store'.files = Append(store.files, ret'.objs[1].val)
               /\ ret'.objs[1].val.user_id = d.userId
               /\ getFileByCode(store', d.code) # <<>>
               /\ UNCHANGED <<writes, disk>>
       /\ \A d \in PersistProfiles :
            (updateUserProfile(d) /\ ret'.res.changes = 1) =>
               /\ getUserById(store', d.id)[1].display_name = d.displayName
               /\ UNCHANGED <<writes, disk>>
       /\ FlushStep => UNCHANGED <<store, ret>>]_vars

(* a profile change made while an earlier write is in flight and another   *)
(* flush is pending                                                        *)
C22_Witness ==
    /\ ret.op = "updateUserProfile"
    /\ ret.res.changes = 1
    /\ getUserById(store, 1)[1].display_name = "Bo"
    /\ Len(writes) = 1
    /\ getUserById(writes[1], 1)[1].display_name = "Al"
    /\ saveTimer

(* C23: a write that fails changes nothing in the in-memory store and      *)
(* makes no operation fail; every operation that reaches scheduleSave      *)
(* leaves a flush pending, and a flush that runs writes the whole store    *)
(* as it is at that moment.                                                *)
C23_FailedFlushHarmless ==
    [][/\ (\E i \in 1..MaxWrites, c \in {disk, <<PARTIAL>>} : WriteFail(i, c))
             => UNCHANGED <<store, ret, saveTimer, saveTimers>>
       /\ (store' # store) => saveTimer'
       /\ FlushTimerFire =>
             /\ writes' = Append(writes, store)
             /\ UNCHANGED store]_vars

(* after a failed write left a part of the file, a later flush is writing  *)
(* the whole current store, which holds a change made since                *)
C23_Witness ==
    /\ disk = <<PARTIAL>>
    /\ writes = <<store>>
    /\ Len(store.users) = 1
    /\ Len(store.files) = 1
    /\ ~saveTimer

(***************************************************************************)
(* Claims about malformed payloads.                                        *)
(***************************************************************************)

(* C24: no inbound event raises an exception: whatever the payload of      *)
(* chat-message, delete-message and history-request is, a missing payload  *)
(* and fields of the wrong type included, the handler completes normally.  *)
C24_NoHandlerThrows ==
    \A sid \in DOMAIN connectedUsers :
        /\ \A data \in ChatData \cup OtherChatData, now \in Clock :
              ~chatMessageHandler(store, userSockets, connectedUsers[sid],
                                  sid, data, now).threw
        /\ \A payload \in DeletePayloads :
              ~deleteMessageListener(store, connectedUsers[sid], sid, payload).threw
        /\ \A params \in HistoryParams :
              ~historyRequestHandler(store, sid, params).threw

(***************************************************************************)
(* Claims about the sticker collections.                                   *)
(***************************************************************************)
WithinLimit(s) ==
    \A k \in DOMAIN s.users : Len(s.users[k].custom_stickers) <= MAX_CUSTOM_STICKERS

(* C25: no user's sticker collection ever holds more than 60 stickers, and *)
(* addUserSticker for a user who holds 60 returns { success: false,        *)
(* reason: 'limit' } and leaves the 60 stickers as they are.               *)
C25_StickerLimit ==
    [][/\ WithinLimit(store) /\ WithinLimit(store')
       /\ \A d \in StickerAdds :
            (/\ addUserSticker(d, FreshHex(store, d.id))
             /\ Len(getUserStickers(store, d.id)) = MAX_CUSTOM_STICKERS)
               => /\ ret'.res = [success |-> FALSE, reason |-> "limit"]
                  /\ store' = store]_vars

(* an addition refused for a user who holds 60 stickers *)
C25_Witness ==
    /\ ret.op = "addUserSticker"
    /\ ret.res = [success |-> FALSE, reason |-> "limit"]
    /\ \E k \in DOMAIN store.users :
          Len(store.users[k].custom_stickers) = MAX_CUSTOM_STICKERS

(***************************************************************************)
(* Claims about file codes.                                                *)
(***************************************************************************)

(* C26: no two stored file records share a code, however the uploads       *)
(* interleave and also when the allocation of a code uses up its retries.  *)
C26_UniqueFileCodes ==
    \A i, j \in DOMAIN store.files :
        i # j => store.files[i].code # store.files[j].code

Alphabet == {FILE_CODE_ALPHABET[i] : i \in DOMAIN FILE_CODE_ALPHABET}

(* C27: generateFileCode returns after at most 5 candidates, and what it   *)
(* returns is always 8 characters of the 32-symbol alphabet, also when all *)
(* 5 candidates collide with stored codes.                                 *)
C27_CodeWellFormed ==
    \A r \in requests :
        r.route = "upload" =>
            /\ r.attempts <= FILE_CODE_ATTEMPTS
            /\ Len(r.code) = FILE_CODE_LENGTH
            /\ \A i \in DOMAIN r.code : r.code[i] \in Alphabet

(***************************************************************************)
(* Claims about registration.                                              *)
(***************************************************************************)

(* C28: no two users share an email, and every user id is unique and       *)
(* larger than the id of every user created before, however the            *)
(* registrations interleave.                                               *)
C28_UniqueEmailsAndIds ==
    \A i, j \in DOMAIN store.users :
        i < j => /\ store.users[i].email # store.users[j].email
                 /\ store.users[i].id < store.users[j].id

(***************************************************************************)
(* Claims about departures.                                                *)
(***************************************************************************)

(* u has a presence entry and no live connection *)
LastConnectionDropped(u) == MapHas(userSockets, u) /\ LiveSockets(u) = {}

(* the departure of u has just been announced: its entry is gone, a 'left' *)
(* message about u and a roster-update without u are broadcast             *)
DepartureAnnounced(u) ==
    /\ ~MapHas(userSockets, u)
    /\ Notices(emitted, u, LEFT) # {}
    /\ \E i \in RosterUpdates(emitted) :
          /\ emitted[i].scope = "all"
          /\ u \notin RosterIds(emitted[i].roster)

(* C29: when the last connection of a user has dropped and no connection   *)
(* of that user registers again, the timer firing eventually removes the   *)
(* presence entry and broadcasts a 'left' message and a roster-update that *)
(* no longer lists the user.                                               *)
C29_DepartureEventually ==
    \A u \in UserIds :
        LastConnectionDropped(u) ~> (DepartureAnnounced(u) \/ LiveSockets(u) # {})

(* a departure announced while the other user stays connected *)
C29_Witness ==
    \E u \in UserIds :
        /\ DepartureAnnounced(u)
        /\ \E v \in UserIds : v # u /\ LiveSockets(v) # {}

(* C30: the disconnect of a connection of a user who has another live      *)
(* connection removes that connection's handle and nothing else: no timer  *)
(* is started, nothing is broadcast, the other users' entries stay.        *)
C30_PartialDisconnectFrame ==
    [][\A sid \in SocketIds :
          (Disconnect(sid) /\ LiveSockets(connectedUsers[sid]) \ {sid} # {})
             => /\ emitted' = <<>>
                /\ UNCHANGED <<timers, disconnectTimers, store>>
                /\ connectedUsers' =
                      [s \in DOMAIN connectedUsers \ {sid} |-> connectedUsers[s]]
                /\ MapKeys(userSockets') = MapKeys(userSockets)
                /\ \A u \in MapKeys(userSockets) :
                      MapSockets(userSockets', u) =
                         IF u = connectedUsers[sid]
                         THEN MapSockets(userSockets, u) \ {sid}
                         ELSE MapSockets(userSockets, u)]_vars

(* the second user, whose registration precedes every connection of theirs, *)
(* is left with one of two connections: nothing is emitted, no timer is    *)
(* pending and the first user is not present                               *)
C30_Witness ==
    /\ Len(store.users) = 2
    /\ Cardinality(LiveSockets(2)) = 1
    /\ MapSockets(userSockets, 2) = LiveSockets(2)
    /\ ~MapHas(userSockets, 1)
    /\ timers = {}
    /\ emitted = <<>>

(***************************************************************************)
(* Claims about the online count and the presence maps.                    *)
(***************************************************************************)
CountEvents(em) == {i \in DOMAIN em : em[i].ev = "online-count"}

(* C31: every online-count sent is the number of distinct users that have  *)
(* a presence entry at that moment, whatever the number of connections of  *)
(* each, and is the length of the roster built at that moment.             *)
C31_OnlineCountIsUsers ==
    /\ \A i \in CountEvents(emitted) :
          /\ emitted[i].n = Cardinality(MapKeys(userSockets))
          /\ emitted[i].n = Cardinality(Online)
          /\ emitted[i].n = Len(buildRoster(store, userSockets))
          /\ \A j \in RosterUpdates(emitted) : Len(emitted[j].roster) = emitted[i].n
    /\ \A k \in DOMAIN InitEvents(emitted) :
          /\ InitEvents(emitted)[k].online = Cardinality(MapKeys(userSockets))
          /\ InitEvents(emitted)[k].online = Len(InitEvents(emitted)[k].roster)

(* a count of 1 sent while the one user present holds two connections *)
C31_Witness ==
    /\ \E i \in CountEvents(emitted) : emitted[i].n = 1
    /\ \E u \in UserIds : Cardinality(LiveSockets(u)) = 2

(* the timers of the runtime that are pending for u *)
TimersOf(u) == {t \in timers : t.userId = u}

(* C32: in every reachable state a user has at most one pending departure  *)
(* timer; a timer is pending for u only while the connection set of u      *)
(* exists and is empty, and an existing empty connection set always has a  *)
(* pending timer; connectedUsers holds exactly the handles that are in     *)
(* some user's connection set, mapped to that user.                        *)
C32_PresenceMapsConsistent ==
    /\ \A u \in UserIds :
          /\ Cardinality(TimersOf(u)) <= 1
          /\ TimersOf(u) # {} =>
                /\ MapHas(userSockets, u)
                /\ MapSockets(userSockets, u) = {}
                /\ u \in DOMAIN disconnectTimers
                /\ \E t \in TimersOf(u) : t.id = disconnectTimers[u]
          /\ (MapHas(userSockets, u) /\ MapSockets(userSockets, u) = {})
                => TimersOf(u) # {}
    /\ \A t \in timers : t.userId \in UserIds
    /\ DOMAIN disconnectTimers = {t.userId : t \in timers}
    /\ \A sid \in DOMAIN connectedUsers :
          /\ MapHas(userSockets, connectedUsers[sid])
          /\ sid \in MapSockets(userSockets, connectedUsers[sid])
    /\ \A u \in MapKeys(userSockets) :
          \A sid \in MapSockets(userSockets, u) :
              sid \in DOMAIN connectedUsers /\ connectedUsers[sid] = u

(* one user in the grace period with a timer pending while the other user  *)
(* holds a connection                                                      *)
C32_Witness ==
    \E u, v \in UserIds :
        /\ u # v
        /\ MapHas(userSockets, u) /\ MapSockets(userSockets, u) = {}
        /\ Cardinality(TimersOf(u)) = 1
        /\ LiveSockets(v) # {}

(* u has been announced as joined and not yet as left: its entry exists *)
Announced(u) == MapHas(userSockets, u)

(* C33: for each user the 'joined' and 'left' notices alternate, starting  *)
(* with 'joined': a step sends 'joined' about u exactly when it creates    *)
(* the entry of u, which did not exist, and 'left' exactly when it removes *)
(* the entry of u, and it never sends two notices about u.                 *)
C33_JoinedLeftAlternate ==
    [][\A u \in UserIds :
          /\ Notices(emitted', u, JOINED) # {} <=> (~Announced(u) /\ Announced(u)')
          /\ Notices(emitted', u, LEFT) # {} <=> (Announced(u) /\ ~Announced(u)')
          /\ Cardinality(Notices(emitted', u, JOINED) \cup Notices(emitted', u, LEFT)) <= 1
      ]_vars

(* a 'joined' notice about one user while the other is in the grace period *)
C33_Witness ==
    \E u, v \in UserIds :
        /\ u # v
        /\ Notices(emitted, u, JOINED) # {}
        /\ GracePending(v)
        /\ Announced(v)

(***************************************************************************)
(* Claims about the debounce of the store file.                            *)
(***************************************************************************)

(* C34: at most one save timer is pending at any time; a mutation made     *)
(* while a timer is pending schedules no further timer; the timer that     *)
(* fires serialises the store as it is then, with every mutation made      *)
(* before, and leaves no timer pending.                                    *)
C34_DebounceCoalesces ==
    [][/\ saveTimers <= 1 /\ saveTimers' <= 1
       /\ saveTimer <=> (saveTimers = 1)
       /\ (saveTimers = 1 /\ store' # store)
             => /\ saveTimers' = 1
                /\ UNCHANGED <<writes, disk>>
       /\ FlushTimerFire
             => /\ writes' = Append(writes, store)
                /\ saveTimers' = 0
                /\ ~saveTimer']_vars

(* three mutations in the one snapshot of the first flush *)
C34_Witness ==
    /\ Records(store) = MaxRecords
    /\ writes = <<store>>
    /\ disk = <<>>
    /\ saveTimers = 0

(* this step is a write that fails *)
WriteFails == \E i \in 1..MaxWrites, c \in {disk, <<PARTIAL>>} : WriteFail(i, c)

(* the store file holds the in-memory store *)
Persisted == disk = <<store>> \/ (disk = <<>> /\ store = defaultStore)

(* C35: if the mutations stop and the writes fail only finitely often, the *)
(* store file eventually holds the final in-memory store for good;        *)
(* that a store never mutated has no file counts as persisted.             *)
C35_EventuallyPersisted ==
    (<>[][UNCHANGED store]_vars /\ <>[][~WriteFails]_vars) => <>[]Persisted


(* the stored messages whose author id is not null and matches no user *)
Orphans == {i \in DOMAIN store.messages :
              /\ store.messages[i].user_id # NULL
              /\ getUserById(store, store.messages[i].user_id) = <<>>}

(* the stored messages without an author *)
SystemMessages == {i \in DOMAIN store.messages : store.messages[i].user_id = NULL}

(* C36: a message whose author matches no user is in no page, whatever the *)
(* limit and the cursor, but is found by id under the name of the unknown  *)
(* user; a message without author is in the page that spans the log, as a  *)
(* system message.                                                         *)
C36_OrphansHiddenFromPages ==
    /\ \A i \in Orphans :
          /\ \A l \in Limits \cup {NULL}, b \in BeforeIds \cup {NULL} :
                \A k \in DOMAIN getMessagesPage(store, l, b) :
                  PageIds(getMessagesPage(store, l, b))[k] # store.messages[i].id
          /\ getMessageById(store, store.messages[i].id) # <<>>
          /\ getMessageById(store, store.messages[i].id)[1].val.id = store.messages[i].id
          /\ getMessageById(store, store.messages[i].id)[1].val.display_name = UNKNOWN_USER
    /\ \A i \in SystemMessages :
          LET page == getMessagesPage(store, Len(store.messages), NULL)
          IN  \E k \in DOMAIN page :
                /\ page[k].val.id = store.messages[i].id
                /\ page[k].val.user_id = NULL
                /\ page[k].val.display_name = SYSTEM_MESSAGE

(* a page was read from a log that holds a message of an unknown author    *)
(* and a system message: the page holds the system message alone           *)
C36_Witness ==
    /\ Orphans # {}
    /\ SystemMessages # {}
    /\ ret.op = "getMessagesPage"
    /\ Len(ret.objs) = 1
    /\ ret.objs[1].val.display_name = SYSTEM_MESSAGE


(* the call failed with 'not_found' and changed nothing, armed no timer *)
NotFoundUntouched ==
    /\ ret'.res = [success |-> FALSE, reason |-> "not_found"]
    /\ store' = store
    /\ UNCHANGED <<saveTimer, saveTimers>>

(* the user's collection lost the one sticker at some position that holds  *)
(* the id; the stickers before and after it stay, in order                 *)
RemovedOne(k, stickerId) ==
    LET list == store.users[k].custom_stickers
    IN  /\ \E i \in DOMAIN list :
              /\ list[i].id = stickerId
              /\ store'.users[k].custom_stickers =
                     SubSeq(list, 1, i - 1) \o SubSeq(list, i + 1, Len(list))
        /\ \A j \in DOMAIN store.users :
              j # k => store'.users[j] = store.users[j]
        /\ Len(store'.users) = Len(store.users)
        /\ store'.messages = store.messages /\ store'.files = store.files

Uninitialised == <<>>

Thrown == [threw |-> TRUE, val |-> <<>>]
Returned(val) == [threw |-> FALSE, val |-> val]

(* normalizeSticker: lines 91-112; <<>> is null *)
normalizeSticker(raw) ==
    IF raw.kind # "object" THEN <<>>
    ELSE IF raw.preview_url = <<>> \/ raw.image_url = <<>> THEN <<>>
    ELSE << [id |-> raw.id, description |-> raw.description] >>

(* array.map(normalizeSticker).filter(Boolean) *)
RECURSIVE normalizeStickers(_)
normalizeStickers(items) ==
    IF items = <<>> THEN <<>>
    ELSE normalizeSticker(Head(items)) \o normalizeStickers(Tail(items))

(* normalizeUser: lines 51-89; binding is what `store` is bound to *)
normalizeUser(binding, raw) ==
    IF raw.kind # "object"
    THEN IF binding = Uninitialised THEN Thrown         \* line 54 reads `store`
         ELSE Returned(<< [id |-> binding[1].nextUserId, email |-> "",
                           display_name |-> "", is_verified |-> 0,
                           verification_token |-> <<>>,
                           verification_expires |-> NULL,
                           custom_stickers |-> <<>>] >>)
    ELSE Returned(<< [id |-> raw.id, email |-> raw.email,
                      display_name |-> raw.display_name,
                      is_verified |-> IF raw.is_verified # <<>> THEN 1 ELSE 0,
                      verification_token |-> raw.verification_token,
                      verification_expires |->
                          IF raw.verification_expires # <<>>
                          THEN OrNull(raw.verification_expires[1]) ELSE NULL,
                      custom_stickers |->
                          IF raw.custom_stickers.array
                          THEN normalizeStickers(raw.custom_stickers.items)
                          ELSE <<>>] >>)

(* normalizeFile: lines 114-137; <<>> is null *)
normalizeFile(binding, raw) ==
    IF raw.kind # "object" THEN Returned(<<>>)
    ELSE IF \/ NormalizeCode(raw.code) = <<>>
            \/ raw.object_key = <<>>
            \/ raw.file_name = <<>>
    THEN Returned(<<>>)
    ELSE IF raw.id # <<>>
    THEN Returned(<< [id |-> raw.id[1], user_id |-> raw.user_id,
                      code |-> NormalizeCode(raw.code)] >>)
    ELSE IF binding = Uninitialised THEN Thrown        \* line 128 reads `store`
    ELSE Returned(<< [id |-> binding[1].nextFileId, user_id |-> raw.user_id,
                      code |-> NormalizeCode(raw.code)] >>)

(* array.map(normalize) and .filter(Boolean); thrown if a call throws *)
RECURSIVE MapUsers(_, _)
MapUsers(binding, items) ==
    IF items = <<>> THEN Returned(<<>>)
    ELSE LET first == normalizeUser(binding, Head(items))
             rest == MapUsers(binding, Tail(items))
         IN  IF first.threw \/ rest.threw THEN Thrown
             ELSE Returned(first.val \o rest.val)

RECURSIVE MapFiles(_, _)
MapFiles(binding, items) ==
    IF items = <<>> THEN Returned(<<>>)
    ELSE LET first == normalizeFile(binding, Head(items))
             rest == MapFiles(binding, Tail(items))
         IN  IF first.threw \/ rest.threw THEN Thrown
             ELSE Returned(first.val \o rest.val)

(* Number.isInteger(parsed.x) ? parsed.x : 1 *)
CounterOr1(field) == IF field # <<>> THEN field[1] ELSE 1

(* loadStore: lines 25-49; content is what store.json holds, <<>> if the   *)
(* file does not exist                                                     *)
loadStore(content) ==
    IF content = <<>> THEN defaultStore                   \* readFileSync throws
    ELSE IF "kind" \notin DOMAIN content[1] THEN defaultStore   \* JSON.parse throws
    ELSE LET parsed == content[1]
             normalizedUsers == IF parsed.users.array
                                THEN MapUsers(Uninitialised, parsed.users.items)
                                ELSE Returned(<<>>)
             files == IF parsed.files.array
                      THEN MapFiles(Uninitialised, parsed.files.items)
                      ELSE Returned(<<>>)
         IN  IF normalizedUsers.threw \/ files.threw
             THEN defaultStore                            \* catch: line 46
             ELSE [users |-> normalizedUsers.val,
                   messages |-> IF parsed.messages.array
                                THEN parsed.messages.items ELSE <<>>,
                   files |-> files.val,
                   nextUserId |-> CounterOr1(parsed.nextUserId),
                   nextMessageId |-> CounterOr1(parsed.nextMessageId),
                   nextFileId |-> CounterOr1(parsed.nextFileId)]

(* the module is loaded: line 22 *)
loadStoreAtStartup ==
    /\ ret.op = "none"
    /\ store' = loadStore(disk)
    /\ ret' = [op |-> "loadStore", res |-> "store", objs |-> <<>>]
    /\ NoSocketActivity
    /\ UNCHANGED <<returnedIds, saveTimer, saveTimers, writes, disk, requests>>

NotAnObject == [kind |-> "other"]
NotAnArray == [array |-> FALSE, items |-> <<>>]
Array(items) == [array |-> TRUE, items |-> items]

RawStickers ==
    << [kind |-> "object", id |-> 1, description |-> "d",
        preview_url |-> <<"p">>, image_url |-> <<"i">>],
       [kind |-> "object", id |-> 2, description |-> "d",
        preview_url |-> <<"p">>, image_url |-> <<>>] >>

RawUser1 ==
    [kind |-> "object", id |-> 1, email |-> "e1", display_name |-> "Al",
     is_verified |-> <<1>>, verification_token |-> <<>>,
     verification_expires |-> <<>>, custom_stickers |-> Array(RawStickers)]
RawUser2 ==
    [kind |-> "object", id |-> 2, email |-> "e2", display_name |-> "Bo",
     is_verified |-> <<>>, verification_token |-> <<"a">>,
     verification_expires |-> <<100>>, custom_stickers |-> NotAnArray]

RawMessage1 ==
    [id |-> 1, user_id |-> 1, content |-> "a", created_at |-> 100,
     reply_to_id |-> NULL, is_deleted |-> 0]

(* a whole file record, one without an integer id, one without a code *)
RawFiles ==
    { [kind |-> "object", id |-> <<1>>, user_id |-> 1, code |-> <<"A", "b">>,
       object_key |-> <<"k">>, file_name |-> <<"f">>],
      [kind |-> "object", id |-> <<>>, user_id |-> 1, code |-> <<"C", "d">>,
       object_key |-> <<"k">>, file_name |-> <<"f">>],
      [kind |-> "object", id |-> <<2>>, user_id |-> 1, code |-> <<>>,
       object_key |-> <<"k">>, file_name |-> <<"f">>],
      NotAnObject }

SeqsUpTo(S, n) == UNION {[1..k -> S] : k \in 0..n}

Documents ==
    { [kind |-> "object", users |-> u, messages |-> m, files |-> f,
       nextUserId |-> <<3>>, nextMessageId |-> <<2>>, nextFileId |-> c] :
        u \in {NotAnArray, Array(<<>>), Array(<<RawUser1>>),
               Array(<<RawUser1, RawUser2>>), Array(<<RawUser1, NotAnObject>>)},
        m \in {NotAnArray, Array(<<>>), Array(<<RawMessage1>>)},
        f \in {NotAnArray} \cup {Array(items) : items \in SeqsUpTo(RawFiles, MaxFiles)},
        c \in {<<>>, <<3>>} }

(* before the module is loaded: store.json holds some document, or a       *)
(* part of one, or does not exist                                          *)
InitLoad ==
    /\ disk \in {<<>>, <<PARTIAL>>} \cup {<<d>> : d \in Documents}
    /\ store = defaultStore
    /\ ret = [op |-> "none", res |-> "none", objs |-> <<>>]
    /\ returnedIds = <<>>
    /\ saveTimer = FALSE
    /\ saveTimers = 0
    /\ writes = <<>>
    /\ requests = {}
    /\ connectedUsers = <<>>
    /\ userSockets = <<>>
    /\ disconnectTimers = <<>>
    /\ timers = {}
    /\ emitted = <<>>
    /\ downloader = NoDownload

NextLoad == loadStoreAtStartup

SpecLoad == InitLoad /\ [][NextLoad]_vars

(***************************************************************************)
(* Claims about loading.                                                   *)
(***************************************************************************)
(* a file entry that passes the required-field check of line 124 *)
ValidFile(raw) ==
    /\ raw.kind = "object"
    /\ NormalizeCode(raw.code) # <<>>
    /\ raw.object_key # <<>>
    /\ raw.file_name # <<>>

(* C38: after the load, whatever entries were dropped or defaulted, every  *)
(* user entry that is an object, every message, every file entry with      *)
(* code, object key and file name, and the three counters of the document  *)
(* are in the store.                                                       *)
C38_LoadKeepsValidRecords ==
    (ret.op = "loadStore" /\ disk # <<>> /\ "kind" \in DOMAIN disk[1]) =>
        LET parsed == disk[1]
        IN  /\ parsed.users.array =>
                \A i \in DOMAIN parsed.users.items :
                    parsed.users.items[i].kind = "object" =>
                        \E j \in DOMAIN store.users :
                            /\ store.users[j].id = parsed.users.items[i].id
                            /\ store.users[j].email = parsed.users.items[i].email
            /\ parsed.messages.array => store.messages = parsed.messages.items
            /\ parsed.files.array =>
                \A i \in DOMAIN parsed.files.items :
                    ValidFile(parsed.files.items[i]) =>
                        \E j \in DOMAIN store.files :
                            store.files[j].code =
                                NormalizeCode(parsed.files.items[i].code)
            /\ parsed.nextUserId # <<>> => store.nextUserId = parsed.nextUserId[1]
            /\ parsed.nextMessageId # <<>> =>
                  store.nextMessageId = parsed.nextMessageId[1]
            /\ parsed.nextFileId # <<>> => store.nextFileId = parsed.nextFileId[1]


(***************************************************************************)
(* Email verification (src/unnamed/part_000 lines 227-236, 267-284;        *)
(* src/public/theme.js lines 470-492, 883-909).  A token is a sequence of  *)
(* characters; <<>> is null in the store and '' in a request.  Date.now()  *)
(* is an argument of the handlers.                                         *)
(***************************************************************************)
VERIFICATION_TOKEN_TTL == 86400000

(* updateUserVerification: lines 227-236 *)
updateUserVerificationOp(s, data) ==
    LET k == UserPos(s, data.id)
    IN  IF k = 0
        THEN [store |-> s, scheduleSave |-> FALSE,
              ret |-> [op |-> "updateUserVerification", res |-> [changes |-> 0],
                       objs |-> <<>>]]
        ELSE [store |-> [s EXCEPT
                           !.users[k].is_verified = IF data.isVerified THEN 1 ELSE 0,
                           !.users[k].verification_token = data.token,
                           !.users[k].verification_expires = OrNull(data.expires)],
              scheduleSave |-> TRUE,
              ret |-> [op |-> "updateUserVerification", res |-> [changes |-> 1],
                       objs |-> <<>>]]

(* store.users.findIndex(u => u.verification_token === token) + 1; a ''    *)
(* presented is no stored value                                            *)
TokenPos(s, token) ==
    IF token # <<>> /\ \E k \in DOMAIN s.users : s.users[k].verification_token = token
    THEN CHOOSE k \in DOMAIN s.users :
            /\ s.users[k].verification_token = token
            /\ \A j \in 1..(k - 1) : s.users[j].verification_token # token
    ELSE 0

(* user.verification_expires && user.verification_expires < Date.now() *)
Expired(user, now) ==
    /\ user.verification_expires # NULL
    /\ user.verification_expires # 0
    /\ user.verification_expires < now

VerifyResult(res, objs) == [op |-> "verifyUserByToken", res |-> res, objs |-> objs]

(* verifyUserByToken without the test of line 275 *)
verifyUserByTokenOp_ignoresExpiry(s, token, now) ==
    LET k == TokenPos(s, token)
    IN  IF k = 0
        THEN [store |-> s, scheduleSave |-> FALSE,
              ret |-> VerifyResult([success |-> FALSE, reason |-> "not_found"], <<>>)]
        ELSE IF s.users[k].is_verified # 0
        THEN [store |-> s, scheduleSave |-> FALSE,
              ret |-> VerifyResult([success |-> TRUE, already |-> TRUE],
                                   <<Fresh(s.users[k])>>)]
        ELSE LET t == [s EXCEPT !.users[k].is_verified = 1,
                                !.users[k].verification_token = <<>>,
                                !.users[k].verification_expires = NULL]
             IN  [store |-> t, scheduleSave |-> TRUE,
                  ret |-> VerifyResult([success |-> TRUE],
                                       <<Fresh(t.users[k])>>)]

(* verifyUserByToken: lines 267-284 *)
verifyUserByTokenOp(s, token, now) ==
    LET k == TokenPos(s, token)
    IN  IF k = 0
        THEN [store |-> s, scheduleSave |-> FALSE,
              ret |-> VerifyResult([success |-> FALSE, reason |-> "not_found"], <<>>)]
        ELSE IF s.users[k].is_verified # 0
        THEN [store |-> s, scheduleSave |-> FALSE,
              ret |-> VerifyResult([success |-> TRUE, already |-> TRUE],
                                   <<Fresh(s.users[k])>>)]
        ELSE IF Expired(s.users[k], now)
        THEN [store |-> s, scheduleSave |-> FALSE,
              ret |-> VerifyResult([success |-> FALSE, reason |-> "expired"],
                                   <<Fresh(s.users[k])>>)]
        ELSE LET t == [s EXCEPT !.users[k].is_verified = 1,
                                !.users[k].verification_token = <<>>,
                                !.users[k].verification_expires = NULL]
             IN  [store |-> t, scheduleSave |-> TRUE,
                  ret |-> VerifyResult([success |-> TRUE],
                                       <<Fresh(t.users[k])>>)]

(* POST /api/auth/register, from the hash on: theme.js lines 393-405 *)
RegisterUnverified(email, token, now) ==
    /\ store.nextUserId <= MaxUsers
    /\ getUserByEmail(store, email) = <<>>
    /\ LET c == createUserOp(store, [email |-> email, display_name |-> "Al",
                                     is_verified |-> 0,
                                     verification_token |-> token,
                                     verification_expires |->
                                         now + VERIFICATION_TOKEN_TTL])
       IN  /\ store' = c.store
           /\ ret' = c.ret
           /\ scheduleSave(c.scheduleSave)
    /\ NoSocketActivity
    /\ UNCHANGED <<returnedIds, writes, disk, requests>>

(* POST /api/auth/resend-verification up to its await: theme.js lines      *)
(* 470-492                                                                 *)
ResendVerification(userId, token, now) ==
    /\ getUserById(store, userId) # <<>>
    /\ getUserById(store, userId)[1].is_verified = 0
    /\ LET r == updateUserVerificationOp(store,
                    [id |-> userId, isVerified |-> FALSE, token |-> token,
                     expires |-> now + VERIFICATION_TOKEN_TTL])
       IN  /\ store' = r.store
           /\ ret' = r.ret
           /\ scheduleSave(r.scheduleSave)
    /\ NoSocketActivity
    /\ UNCHANGED <<returnedIds, writes, disk, requests>>

(* GET /verify: theme.js lines 883-909 *)
GetVerify(query, now) ==
    /\ IF trim(query) = <<>>
       THEN /\ ret' = [op |-> "GET /verify", res |-> [status |-> 400], objs |-> <<>>]
            /\ UNCHANGED <<store, saveTimer, saveTimers>>
       ELSE LET r == verifyUserByTokenOp(store, trim(query), now)
            IN  /\ store' = r.store
                /\ ret' = r.ret
                /\ scheduleSave(r.scheduleSave)
    /\ NoSocketActivity
    /\ UNCHANGED <<returnedIds, writes, disk, requests>>

(* crypto.randomBytes(32): a token no user holds *)
Tokens == {<<"a">>, <<"b">>, <<"c">>}
FreshTokens(s) ==
    {t \in Tokens : \A k \in DOMAIN s.users : s.users[k].verification_token # t}

(* what a request carries as ?token= *)
Queries == Tokens \cup {<<>>, <<" ">>, <<" ", "a">>}

(* Date.now() at a call: a first instant, the last instant at which a      *)
(* token issued at the first is still good, and the instant after          *)
Times == {1, 1 + VERIFICATION_TOKEN_TTL, 2 + VERIFICATION_TOKEN_TTL}

VerifyEmails == {"e1", "e2"}

NextVerify ==
    \/ \E e \in VerifyEmails, t \in FreshTokens(store), now \in Times :
          RegisterUnverified(e, t, now)
    \/ \E u \in UserIds, t \in FreshTokens(store), now \in Times :
          ResendVerification(u, t, now)
    \/ \E q \in Queries, now \in Times : GetVerify(q, now)

SpecVerify == Init /\ [][NextVerify]_vars

(***************************************************************************)
(* Claims about email verification.                                        *)
(***************************************************************************)
(* the users that hold the token presented *)
Holders(token) ==
    {k \in DOMAIN store.users :
        token # <<>> /\ store.users[k].verification_token = token}

(* C39: presenting a token whose expiry has passed, held by a user not     *)
(* yet verified, answers 'expired' and leaves the store as it was; a user  *)
(* goes from unverified to verified only if the token presented is the     *)
(* one stored for that user and has not expired; a token that no user      *)
(* holds answers 'not_found' and leaves the store as it was.               *)
C39_VerifyOnlyWithGoodToken ==
    [][\A q \in Queries, now \in Times :
        (GetVerify(q, now) /\ trim(q) # <<>>) =>
            /\ \A k \in Holders(trim(q)) :
                  (store.users[k].is_verified = 0 /\ Expired(store.users[k], now))
                     => /\ ret'.res = [success |-> FALSE, reason |-> "expired"]
                        /\ store' = store
                        /\ UNCHANGED <<saveTimer, saveTimers>>
            /\ \A k \in DOMAIN store.users :
                  (store.users[k].is_verified = 0 /\ store'.users[k].is_verified = 1)
                     => /\ store.users[k].verification_token = trim(q)
                        /\ ~Expired(store.users[k], now)
            /\ Holders(trim(q)) = {}
                  => /\ ret'.res = [success |-> FALSE, reason |-> "not_found"]
                     /\ store' = store
                     /\ UNCHANGED <<saveTimer, saveTimers>>
      ]_vars

(* an expired token was just presented: its holder is still unverified     *)
(* and still holds it, with its expiry                                     *)
C39_Witness ==
    /\ ret.op = "verifyUserByToken"
    /\ ret.res = [success |-> FALSE, reason |-> "expired"]
    /\ Len(store.users) >= 1
    /\ store.users[1].is_verified = 0
    /\ store.users[1].verification_token = <<"a">>
    /\ store.users[1].verification_expires = 1 + VERIFICATION_TOKEN_TTL


(***************************************************************************)
(* The page's downloader (src/public/download-manager.js lines 71-247).    *)
(* A buffer is the byte range it holds: fetchRange returns a buffer only   *)
(* when its length is end - start + 1 (lines 236-245) and throws           *)
(* otherwise.  An array slot never written is <<>>.                        *)
(***************************************************************************)
MaxSize == 5
MaxChunkSize == 2
MaxConcurrency == 3
retryCount == 3

Min(a, b) == IF a <= b THEN a ELSE b

(* Math.ceil(a / b) *)
Ceil(a, b) == (a + b - 1) \div b

(* a last byte one past the chunk *)
RangeEnd_overlapping(size, start, chunkSize) == Min(size - 1, start + chunkSize)

(* line 179 *)
RangeEnd(size, start, chunkSize) == Min(size - 1, start + chunkSize - 1)

(* lines 175-181: position i holds the range of index i - 1 *)
Ranges(size, chunkSize) ==
    [i \in 1..Ceil(size, chunkSize) |->
        [index |-> i - 1,
         start |-> (i - 1) * chunkSize,
         end |-> RangeEnd(size, (i - 1) * chunkSize, chunkSize)]]

(* spawnWorker from the head of its loop to its next await: lines 207-210 *)
WorkerLoop(d, w) ==
    IF d.queue = <<>>
    THEN [d EXCEPT !.workers[w] = [state |-> "done", task |-> <<>>, attempt |-> 0]]
    ELSE [d EXCEPT !.queue = Tail(@),                      \* queue.shift()
                   !.taken = Append(@, [index |-> Head(d.queue).index,
                                        worker |-> w]),
                   !.workers[w] = [state |-> "fetching", task |-> <<Head(d.queue)>>,
                                   attempt |-> 1]]

(* lines 186-197: the workers are spawned one after the other *)
RECURSIVE SpawnWorkers(_, _, _)
SpawnWorkers(d, w, n) ==
    IF w > n THEN d ELSE SpawnWorkers(WorkerLoop(d, w), w + 1, n)

(* multiFetch up to its await: lines 174-199 *)
multiFetchStart(d, size) ==
    LET ranges == Ranges(size, d.chunkSize)
        totalChunks == Len(ranges)
        n == Min(d.concurrency, totalChunks)
    IN  SpawnWorkers([d EXCEPT !.phase = "fetching", !.mode = "multi",
                               !.ranges = ranges, !.queue = ranges,
                               !.results = [i \in 1..totalChunks |-> <<>>],
                               !.workers = [w \in 1..n |->
                                              [state |-> "new", task |-> <<>>,
                                               attempt |-> 0]]],
                     1, n)

(* start, with size what ensureSize returns: lines 126-135 *)
start(size, chunkSize, concurrency) ==
    /\ downloader.phase = "idle"
    /\ LET d == [downloader EXCEPT !.size = size, !.chunkSize = chunkSize,
                                   !.concurrency = concurrency]
       IN  downloader' =
             IF size = 0 \/ size < chunkSize \/ concurrency = 1
             THEN [d EXCEPT !.phase = "fetching", !.mode = "single"]
             ELSE multiFetchStart(d, size)
    /\ UNCHANGED serverVars

(* singleFetch: the response arrives, lines 158-172 *)
SingleResolve ==
    /\ downloader.phase = "fetching" /\ downloader.mode = "single"
    /\ downloader' = [downloader EXCEPT
                        !.phase = "done", !.triggered = TRUE,
                        !.blob = << [start |-> 0, end |-> downloader.size - 1] >>]
    /\ UNCHANGED serverVars

(* singleFetch: fetch rejects or !res.ok, lines 158-164 *)
SingleReject ==
    /\ downloader.phase = "fetching" /\ downloader.mode = "single"
    /\ downloader' = [downloader EXCEPT !.phase = "failed"]
    /\ UNCHANGED serverVars

(* a range fetch of worker w returns its buffer: lines 210-212, then the   *)
(* loop of the worker goes on                                              *)
FetchResolve(w) ==
    /\ downloader.mode = "multi"
    /\ w \in DOMAIN downloader.workers
    /\ downloader.workers[w].state = "fetching"
    /\ LET task == downloader.workers[w].task[1]
           buffer == [start |-> task.start, end |-> task.end]
       IN  downloader' =
             WorkerLoop([downloader EXCEPT
                            !.results[task.index + 1] = <<buffer>>,
                            !.completed = @ + 1,
                            !.arrived = Append(@, task.index)],
                        w)
    /\ UNCHANGED serverVars

(* a range fetch of worker w throws: lines 219-225.  Before the last      *)
(* attempt the worker waits for the retry delay; after it the worker       *)
(* rejects, and so does Promise.all (line 199).                            *)
FetchReject(w) ==
    /\ downloader.mode = "multi"
    /\ w \in DOMAIN downloader.workers
    /\ downloader.workers[w].state = "fetching"
    /\ downloader' =
         IF downloader.workers[w].attempt >= retryCount
         THEN [downloader EXCEPT !.workers[w].state = "failed", !.phase = "failed"]
         ELSE [downloader EXCEPT !.workers[w].state = "waiting"]
    /\ UNCHANGED serverVars

(* the retry delay of worker w is over: lines 224-225 *)
RetryTimerFire(w) ==
    /\ downloader.mode = "multi"
    /\ w \in DOMAIN downloader.workers
    /\ downloader.workers[w].state = "waiting"
    /\ downloader' = [downloader EXCEPT !.workers[w].state = "fetching",
                                        !.workers[w].attempt = @ + 1]
    /\ UNCHANGED serverVars

(* Promise.all(workers) resolved: lines 199-203 *)
AssembleBlob ==
    /\ downloader.phase = "fetching" /\ downloader.mode = "multi"
    /\ \A w \in DOMAIN downloader.workers : downloader.workers[w].state = "done"
    /\ downloader' = [downloader EXCEPT
                        !.phase = "done", !.triggered = TRUE,
                        !.blob = [i \in DOMAIN downloader.results |->
                                    IF downloader.results[i] = <<>>
                                    THEN [start |-> 0, end |-> 0 - 1]   \* no buffer
                                    ELSE downloader.results[i][1]]]
    /\ UNCHANGED serverVars

NextDownload ==
    \/ \E size \in 1..MaxSize, chunkSize \in 1..MaxChunkSize,
          concurrency \in 1..MaxConcurrency : start(size, chunkSize, concurrency)
    \/ SingleResolve
    \/ SingleReject
    \/ \E w \in 1..MaxConcurrency : FetchResolve(w)
    \/ \E w \in 1..MaxConcurrency : FetchReject(w)
    \/ \E w \in 1..MaxConcurrency : RetryTimerFire(w)
    \/ AssembleBlob

SpecDownload == Init /\ [][NextDownload]_vars

(***************************************************************************)
(* Claims about the downloader.                                            *)
(***************************************************************************)
(* the ranges cover the bytes 0 .. size - 1, one after the other *)
Partition(ranges, size) ==
    /\ ranges # <<>>
    /\ ranges[1].start = 0
    /\ ranges[Len(ranges)].end = size - 1
    /\ \A i \in DOMAIN ranges :
          /\ ranges[i].index = i - 1
          /\ ranges[i].start <= ranges[i].end
          /\ i < Len(ranges) => ranges[i + 1].start = ranges[i].end + 1

(* every range is either still in the queue or was taken once *)
TakenOnce(d) ==
    /\ \A i, j \in DOMAIN d.taken : d.taken[i].index = d.taken[j].index => i = j
    /\ \A i \in DOMAIN d.ranges :
          (\E k \in DOMAIN d.queue : d.queue[k] = d.ranges[i])
             <=> ~(\E k \in DOMAIN d.taken : d.taken[k].index = d.ranges[i].index)
    /\ \A k \in DOMAIN d.taken :
          d.taken[k].worker \in DOMAIN d.workers

InFlight(d) == {w \in DOMAIN d.workers : d.workers[w].state = "fetching"}

(* C40: in a multiFetch call the ranges partition the bytes 0 .. size - 1, *)
(* every range leaves the queue once, for one worker, at most              *)
(* min(concurrency, totalChunks) range fetches are in flight, and when the *)
(* download is triggered every range was taken and fetched and the blob    *)
(* holds the buffers in the order of the range indices.                    *)
C40_MultiFetchQueue ==
    downloader.mode = "multi" =>
        /\ Partition(downloader.ranges, downloader.size)
        /\ TakenOnce(downloader)
        /\ Cardinality(InFlight(downloader))
              <= Min(downloader.concurrency, Len(downloader.ranges))
        /\ downloader.triggered =>
              /\ downloader.queue = <<>>
              /\ Len(downloader.taken) = Len(downloader.ranges)
              /\ Len(downloader.blob) = Len(downloader.ranges)
              /\ \A i \in DOMAIN downloader.ranges :
                    downloader.blob[i] = [start |-> downloader.ranges[i].start,
                                          end |-> downloader.ranges[i].end]

(* a download of three ranges or more was triggered although the range of  *)
(* index 1 was fetched before the range of index 0, and a worker took more *)
(* than one range                                                          *)
C40_Witness ==
    /\ downloader.mode = "multi"
    /\ downloader.triggered
    /\ Len(downloader.ranges) >= 3
    /\ Len(downloader.workers) < Len(downloader.ranges)
    /\ downloader.arrived[1] = 1

=============================================================================
